---- MODULE Spec2Model ----
(***************************************************************************)
(* Cross-exchange spread engine of cex-price-diff-notifications.           *)
(*                                                                         *)
(* The engine (arbitrage.CalculateSpreads) is a pure function of a price   *)
(* table map[symbol]map[exchange]TickerBidAsk.  Go iterates maps in an     *)
(* unspecified order, so the order of the symbols and of the exchanges of  *)
(* each symbol is an input of the model, chosen by the actions.            *)
(*                                                                         *)
(* float64 values are modelled as exact fractions n/d with d >= 0; d = 0   *)
(* encodes the IEEE specials (+Inf = 1/0, -Inf = -1/0, NaN = 0/0).         *)
(* Rounding, overflow and underflow of float64 are not modelled.           *)
(***************************************************************************)
EXTENDS Integers, Sequences, FiniteSets, TLC

VARIABLES
    tickers,    \* map[symbol] -> map[exchangeName] -> TickerBidAsk (the PriceTable)
    pc,         \* position of the polling cycle: "ready" | "done"
    engine,     \* which engine produced the result of this cycle
    spreads,    \* the slice returned by the engine
    evaluated,  \* history of the loop bodies executed: one entry per (symbol, A, B)
    binanceFundingRates,  \* map[unifiedSymbol] -> BinanceFundingRateDto
    mexcFundingRates,     \* map[unifiedSymbol] -> MexcFundingRateDto
    published,  \* the JSON bodies published to the queue, in order
    collected,  \* the frames collected by calculate_price_spreads: [filters, frame]
    allTickers, \* main: the table the goroutines of the current cycle merge into
    mu,         \* main: holder of the mutex of the current cycle, or "unlocked"
    wg,         \* main: counter of the WaitGroup of the current cycle
    goroutines, \* main: position and locals of each goroutine of the current cycle
    fetched,    \* main: what GetTickers returned to each ticker goroutine this cycle
    log,        \* the warnings and errors written with slog so far
    cycle,      \* number of polling cycles completed
    earlier,    \* history: the table passed to CalculateSpreads by the previous cycle
    symbolArg,  \* the strings given to the symbol conversions
    symbolRet,  \* what the conversions returned: <<function, argument>> -> return
    details,    \* the contracts the Mexc contract-detail endpoint lists
    ctx,        \* MexcAdapter.ctx: the generation of the adapter's current context
    cancelled,  \* the contexts whose cancel function has been called
    symbols,    \* MexcAdapter.symbols
    FundingRates, \* MexcAdapter.FundingRates
    wrote,      \* history: the context of the goroutine that wrote each entry of FundingRates
    conns,      \* the manageWsConnection goroutines started so far, with their ping goroutines
    adapter,    \* position of the goroutine constructing or restarting the MexcAdapter
    shutdown,   \* position of the shutdown handler
    update      \* the running call of BinanceAdapter.UpdateFundingRates and its locals

mainVars == <<allTickers, mu, wg, goroutines, fetched, log, cycle, earlier>>

symbolVars == <<symbolArg, symbolRet>>

mexcVars == <<details, ctx, cancelled, symbols, FundingRates, wrote, conns,
              adapter, shutdown>>

adapterVars == <<mexcVars, update>>

pollingVars == <<tickers, pc, engine, spreads, evaluated,
                 binanceFundingRates, mexcFundingRates, published, collected,
                 mainVars, symbolVars>>

vars == <<pollingVars, adapterVars>>

----------------------------------------------------------------------------
(* Bounds of the model *)

MaxPrice == 2       \* prices are the integers -1 .. MaxPrice
MaxWidth == 1       \* |Ask - Bid| <= MaxWidth on the two-exchange tables
MaxExchanges == 5   \* exchanges quoting the symbol of a many-exchange table

Symbols == {"BTC/USDT:PERP", "ETH/USDT:PERP"}
MainExchanges == {"Binance", "Mexc"}
ExchangeNames == <<"Binance", "Mexc", "Bybit", "Okx", "Gate", "Kucoin", "Htx">>
ManyExchanges == {ExchangeNames[k] : k \in 1..MaxExchanges}
Prices == (0 - 1)..MaxPrice

----------------------------------------------------------------------------
(* float64 arithmetic *)

Abs(x) == IF x < 0 THEN 0 - x ELSE x

Sign(x) == IF x < 0 THEN 0 - 1 ELSE IF x > 0 THEN 1 ELSE 0

RECURSIVE GCD(_, _)
GCD(a, b) == IF b = 0 THEN a ELSE GCD(b, a % b)

Norm(n, d) ==
    IF d = 0 THEN [n |-> Sign(n), d |-> 0]
    ELSE LET g == GCD(Abs(n), Abs(d))
         IN  [n |-> (Sign(d) * n) \div g, d |-> Abs(d) \div g]

F(x) == [n |-> x, d |-> 1]
Zero == F(0)

IsNaN(a) == a.n = 0 /\ a.d = 0
IsFinite(a) == a.d > 0

FAdd(a, b) == Norm(a.n * b.d + b.n * a.d, a.d * b.d)
FSub(a, b) == Norm(a.n * b.d - b.n * a.d, a.d * b.d)
FMul(a, b) == Norm(a.n * b.n, a.d * b.d)
FDiv(a, b) == Norm(a.n * b.d * Sign(b.n), a.d * Abs(b.n))

FGT(a, b) ==
    /\ ~IsNaN(a)
    /\ ~IsNaN(b)
    /\ IF a.d = 0 /\ b.d = 0 THEN a.n > b.n ELSE a.n * b.d > b.n * a.d

FGE(a, b) ==
    /\ ~IsNaN(a)
    /\ ~IsNaN(b)
    /\ IF a.d = 0 /\ b.d = 0 THEN a.n >= b.n ELSE a.n * b.d >= b.n * a.d

----------------------------------------------------------------------------
(* Data model *)

TickerBidAsk ==
    {[Bid |-> [n |-> b, d |-> 1], Ask |-> [n |-> a, d |-> 1]] :
        <<b, a>> \in {x \in Prices \X Prices : x[2] - x[1] \in (0 - MaxWidth)..MaxWidth}}

\* Uncrossed zero-width quotes at positive prices, for the many-exchange tables.
FlatTickers ==
    {[Bid |-> [n |-> p, d |-> 1], Ask |-> [n |-> p, d |-> 1]] : p \in 1..MaxPrice}

SymbolsOf(K) == {k[1] : k \in K}

\* The table with a quote q[k] for every slot k of K and an empty exchange map
\* for every symbol of E0.
MakeTable(K, q, E0) ==
    [s \in SymbolsOf(K) \cup E0 |->
        [e \in {k[2] : k \in {x \in K : x[1] = s}} |-> q[<<s, e>>]]]

\* All enumeration orders of a finite set (Go's map iteration order).
RECURSIVE Orders(_)
Orders(S) ==
    IF S = {} THEN {<< >>}
    ELSE UNION { {<<x>> \o o : o \in Orders(S \ {x})} : x \in S }

----------------------------------------------------------------------------
(* arbitrage.CalculateSpreads, calculator.go *)

\* The nil pointer.
Nil == [nil |-> TRUE]

\* Faulty variant: the roles of the two venues are exchanged.
OpenDiffSwapped(tickerA, tickerB) == FSub(tickerB.Bid, tickerA.Ask)

OpenDiffOf(tickerA, tickerB) == FSub(tickerA.Bid, tickerB.Ask)

\* Faulty variant: the sum of the two prices is not halved.
OpenAvgPriceNotHalved(tickerA, tickerB) == FAdd(tickerA.Bid, tickerB.Ask)

OpenAvgPrice(tickerA, tickerB) == FDiv(FAdd(tickerA.Bid, tickerB.Ask), F(2))

\* Faulty variant: the guard on the average price is missing.
EntrySpreadUnguarded(tickerA, tickerB) ==
    LET openDiff == OpenDiffOf(tickerA, tickerB)
    IN  IF FGT(openDiff, Zero)
        THEN LET openAvgPrice == OpenAvgPrice(tickerA, tickerB)
             IN  [v |-> FMul(FDiv(openDiff, openAvgPrice), F(100)),
                  divisors |-> <<openAvgPrice>>]
        ELSE [v |-> Zero, divisors |-> << >>]

\* entrySpread, with the divisors of the divisions executed to compute it.
EntrySpreadOf(tickerA, tickerB) ==
    LET openDiff == OpenDiffOf(tickerA, tickerB)
    IN  IF FGT(openDiff, Zero)
        THEN LET openAvgPrice == OpenAvgPrice(tickerA, tickerB)
             IN  IF FGT(openAvgPrice, Zero)
                 THEN [v |-> FMul(FDiv(openDiff, openAvgPrice), F(100)),
                       divisors |-> <<openAvgPrice>>]
                 ELSE [v |-> Zero, divisors |-> << >>]
        ELSE [v |-> Zero, divisors |-> << >>]

\* Faulty variant: the exit gap taken from the short venue's side.
ExitDiffReversed(tickerA, tickerB) == FSub(tickerA.Ask, tickerB.Bid)

\* exitDiff := tickerB.Bid - tickerA.Ask
ExitDiffOf(tickerA, tickerB) == FSub(tickerB.Bid, tickerA.Ask)

ExitAvgPrice(tickerA, tickerB) == FDiv(FAdd(tickerB.Bid, tickerA.Ask), F(2))

\* Faulty variant: the exit spread is gated on the sign of exitDiff like the entry spread.
ExitSpreadGated(tickerA, tickerB) ==
    LET exitDiff == ExitDiffOf(tickerA, tickerB)
        exitAvgPrice == ExitAvgPrice(tickerA, tickerB)
    IN  IF FGT(exitDiff, Zero) /\ FGT(exitAvgPrice, Zero)
        THEN [v |-> FMul(FDiv(exitDiff, exitAvgPrice), F(100)),
              divisors |-> <<exitAvgPrice>>]
        ELSE [v |-> Zero, divisors |-> << >>]

\* exitSpread, with the divisors of the divisions executed to compute it.
ExitSpreadOf(tickerA, tickerB) ==
    LET exitDiff == ExitDiffOf(tickerA, tickerB)
        exitAvgPrice == ExitAvgPrice(tickerA, tickerB)
    IN  IF FGT(exitAvgPrice, Zero)
        THEN [v |-> FMul(FDiv(exitDiff, exitAvgPrice), F(100)),
              divisors |-> <<exitAvgPrice>>]
        ELSE [v |-> Zero, divisors |-> << >>]

Spread(symbol, exchangeA, exchangeB, tickerA, tickerB) ==
    [UnifiedSymbol   |-> symbol,
     ExchangeShort   |-> exchangeA,
     ExchangeLong    |-> exchangeB,
     EntrySpread     |-> EntrySpreadOf(tickerA, tickerB).v,
     OpenDiff        |-> OpenDiffOf(tickerA, tickerB),
     ExitSpread      |-> ExitSpreadOf(tickerA, tickerB).v,
     ExitDiff        |-> ExitDiffOf(tickerA, tickerB),
     FundingSpread8h |-> Nil]

\* Faulty variant: the self-comparison is not skipped.
RECURSIVE PairLoopNoSkip(_, _, _)
PairLoopNoSkip(n, i, j) ==
    IF i > n THEN << >>
    ELSE IF j > n THEN PairLoopNoSkip(n, i + 1, 1)
    ELSE <<(<<i, j>>)>> \o PairLoopNoSkip(n, i, j + 1)

\* for i := 0; i < len(exchanges); i++ { for j := 0; j < len(exchanges); j++ {
\*     if i == j { continue } ... } }  -- the index pairs whose body is executed.
RECURSIVE PairLoop(_, _, _)
PairLoop(n, i, j) ==
    IF i > n THEN << >>
    ELSE IF j > n THEN PairLoop(n, i + 1, 1)
    ELSE IF i = j THEN PairLoop(n, i, j + 1)
    ELSE <<(<<i, j>>)>> \o PairLoop(n, i, j + 1)

\* Faulty variant: no length guard and no skip of the self-comparison.
SymbolPairsSelf(symbol, exchangeData, exchanges) ==
    LET ix == PairLoopNoSkip(Len(exchanges), 1, 1)
    IN  [k \in 1..Len(ix) |->
            LET exchangeA == exchanges[ix[k][1]]
                exchangeB == exchanges[ix[k][2]]
            IN  [symbol |-> symbol, A |-> exchangeA, B |-> exchangeB,
                 divisors |-> EntrySpreadOf(exchangeData[exchangeA], exchangeData[exchangeB]).divisors
                              \o ExitSpreadOf(exchangeData[exchangeA], exchangeData[exchangeB]).divisors,
                 spread |-> Spread(symbol, exchangeA, exchangeB,
                                   exchangeData[exchangeA], exchangeData[exchangeB])]]

\* The loop bodies executed for one symbol: the evaluated ordered pairs.
SymbolPairs(symbol, exchangeData, exchanges) ==
    IF Cardinality(DOMAIN exchangeData) < 2 THEN << >>
    ELSE LET ix == PairLoop(Len(exchanges), 1, 1)
         IN  [k \in 1..Len(ix) |->
                 LET exchangeA == exchanges[ix[k][1]]
                     exchangeB == exchanges[ix[k][2]]
                 IN  [symbol |-> symbol, A |-> exchangeA, B |-> exchangeB,
                      divisors |-> EntrySpreadOf(exchangeData[exchangeA], exchangeData[exchangeB]).divisors
                                   \o ExitSpreadOf(exchangeData[exchangeA], exchangeData[exchangeB]).divisors,
                      spread |-> Spread(symbol, exchangeA, exchangeB,
                                        exchangeData[exchangeA], exchangeData[exchangeB])]]

\* Faulty variant: the loop over the symbols ends after its first iteration.
EvaluateFirstSymbol(t, symOrder, exOrder) ==
    IF symOrder = << >> THEN << >>
    ELSE SymbolPairs(Head(symOrder), t[Head(symOrder)], exOrder[Head(symOrder)])

\* Every loop body executed by one call, in execution order.
RECURSIVE Evaluate(_, _, _)
Evaluate(t, symOrder, exOrder) ==
    IF symOrder = << >> THEN << >>
    ELSE LET symbol == Head(symOrder)
         IN  SymbolPairs(symbol, t[symbol], exOrder[symbol])
             \o Evaluate(t, Tail(symOrder), exOrder)

\* Faulty variant: pairs with a zero entry spread are emitted too.
EmittedNonNegative(evals) ==
    LET keep == SelectSeq(evals, LAMBDA e : FGE(e.spread.EntrySpread, Zero))
    IN  [k \in 1..Len(keep) |-> keep[k].spread]

\* if entrySpread > 0 { spreads = append(spreads, Spread{...}) }
Emitted(evals) ==
    LET keep == SelectSeq(evals, LAMBDA e : FGT(e.spread.EntrySpread, Zero))
    IN  [k \in 1..Len(keep) |-> keep[k].spread]

\* Faulty variant: ascending order.
LessAscending(a, b) == FGT(b.EntrySpread, a.EntrySpread)

\* The less function handed to sort.Slice.
Less(a, b) == FGT(a.EntrySpread, b.EntrySpread)

\* Faulty variant: the swap overwrites element i and keeps element j.
SwapOverwriting(s, i, j) == [s EXCEPT ![i] = s[j]]

\* The swap of sort.Slice (reflect.Swapper).
Swap(s, i, j) == [s EXCEPT ![i] = s[j], ![j] = s[i]]

\* sort.Slice on at most 12 elements is an insertion sort:
\* for i := 1; i < n; i++ { for j := i; j > 0 && less(j, j-1); j-- { swap(j, j-1) } }
RECURSIVE SiftDown(_, _)
SiftDown(s, j) ==
    IF j > 1 /\ Less(s[j], s[j - 1]) THEN SiftDown(Swap(s, j, j - 1), j - 1) ELSE s

RECURSIVE InsertionSort(_, _)
InsertionSort(s, i) ==
    IF i > Len(s) THEN s ELSE InsertionSort(SiftDown(s, i), i + 1)

SortSlice(s) == InsertionSort(s, 2)

\* Faulty variant: the call deletes the symbols it skips (fewer than two exchanges).
TickersAfterCallPruned(t) ==
    [s \in {x \in DOMAIN t : Cardinality(DOMAIN t[x]) >= 2} |-> t[s]]

\* The caller's map after the call: the loops range over tickers and
\* exchangeData and copy the tickers out (tickerA := exchangeData[exchangeA]);
\* no statement assigns to the map, to an inner map or through a pointer.
TickersAfterCall(t) == t

CalculateSpreads(t, symOrder, exOrder) ==
    SortSlice(Emitted(Evaluate(t, symOrder, exOrder)))

ExchangeOrders(t) ==
    {eo \in [DOMAIN t -> UNION {Orders(DOMAIN t[s]) : s \in DOMAIN t}] :
        \A s \in DOMAIN t : eo[s] \in Orders(DOMAIN t[s])}

----------------------------------------------------------------------------
(* arbitrage.CalculateSpreads with funding rates, part_006 *)

\* Strings are sequences of one-character strings.
Digits == <<"0", "1", "2", "3", "4", "5", "6", "7", "8", "9">>

IsDigit(c) == \E k \in 1..10 : Digits[k] = c

DigitValue(c) == (CHOOSE k \in 1..10 : Digits[k] = c) - 1

RECURSIVE Pow10(_)
Pow10(k) == IF k = 0 THEN 1 ELSE 10 * Pow10(k - 1)

RECURSIVE DecimalValue(_, _)
DecimalValue(str, acc) ==
    IF str = << >> THEN acc
    ELSE DecimalValue(Tail(str), 10 * acc + DigitValue(Head(str)))

\* Faulty variant: every string parses, a malformed one as 0.
ParseFloatLenient(str) ==
    LET signed == str # << >> /\ Head(str) \in {"+", "-"}
        body == IF signed THEN Tail(str) ELSE str
        dots == {k \in DOMAIN body : body[k] = "."}
        dot == IF dots = {} THEN Len(body) + 1 ELSE CHOOSE k \in dots : \A m \in dots : k <= m
        intPart == SubSeq(body, 1, dot - 1)
        fracPart == SubSeq(body, dot + 1, Len(body))
        ok == /\ \A k \in DOMAIN intPart : IsDigit(intPart[k])
              /\ \A k \in DOMAIN fracPart : IsDigit(fracPart[k])
              /\ Len(intPart) + Len(fracPart) > 0
    IN  IF ok
        THEN [err |-> FALSE,
              r |-> Norm((IF signed /\ Head(str) = "-" THEN 0 - 1 ELSE 1)
                            * DecimalValue(intPart \o fracPart, 0),
                         Pow10(Len(fracPart)))]
        ELSE [err |-> FALSE, r |-> Zero]

\* strconv.ParseFloat(str, 64) on strings over digits, sign, "." and letters
\* that spell no number: [sign] digits ["." digits], at least one digit.
ParseFloat(str) ==
    LET signed == str # << >> /\ Head(str) \in {"+", "-"}
        body == IF signed THEN Tail(str) ELSE str
        dots == {k \in DOMAIN body : body[k] = "."}
        dot == IF dots = {} THEN Len(body) + 1 ELSE CHOOSE k \in dots : \A m \in dots : k <= m
        intPart == SubSeq(body, 1, dot - 1)
        fracPart == SubSeq(body, dot + 1, Len(body))
        ok == /\ \A k \in DOMAIN intPart : IsDigit(intPart[k])
              /\ \A k \in DOMAIN fracPart : IsDigit(fracPart[k])
              /\ Len(intPart) + Len(fracPart) > 0
    IN  IF ok
        THEN [err |-> FALSE,
              r |-> Norm((IF signed /\ Head(str) = "-" THEN 0 - 1 ELSE 1)
                            * DecimalValue(intPart \o fracPart, 0),
                         Pow10(Len(fracPart)))]
        ELSE [err |-> TRUE, r |-> Zero]

\* Faulty variant: the exchange name does not select the map; any map that has the
\* symbol answers.
GetFundingRateInfoAnyExchange(unifiedSymbol, exchangeName, bfr, mfr) ==
    IF unifiedSymbol \in DOMAIN mfr
    THEN [info |-> [Rate |-> mfr[unifiedSymbol].FundingRate,
                    Interval |-> mfr[unifiedSymbol].CollectCycle,
                    NextSettleTime |-> mfr[unifiedSymbol].NextSettleTime],
          found |-> TRUE]
    ELSE [info |-> Nil, found |-> FALSE]

getFundingRateInfo(unifiedSymbol, exchangeName, bfr, mfr) ==
    IF exchangeName = "Binance" /\ unifiedSymbol \in DOMAIN bfr
    THEN LET dto == bfr[unifiedSymbol]
             p == ParseFloat(dto.LastFundingRate)
         IN  IF p.err
             THEN [info |-> Nil, found |-> FALSE]
             ELSE [info |-> [Rate |-> p.r,
                             Interval |-> dto.FundingIntervalHours,
                             NextSettleTime |-> dto.NextFundingTime],
                   found |-> TRUE]
    ELSE IF exchangeName = "Mexc" /\ unifiedSymbol \in DOMAIN mfr
    THEN LET dto == mfr[unifiedSymbol]
         IN  [info |-> [Rate |-> dto.FundingRate,
                        Interval |-> dto.CollectCycle,
                        NextSettleTime |-> dto.NextSettleTime],
              found |-> TRUE]
    ELSE [info |-> Nil, found |-> FALSE]

\* Faulty variant: a missing or unusable side yields a zero carry instead of no value.
FundingSpread8hZeroDefault(a, b) ==
    IF a.found /\ b.found /\ a.info.Interval > 0 /\ b.info.Interval > 0
    THEN LET pnlShort == FMul(FMul(F(1), a.info.Rate), FDiv(F(8), F(a.info.Interval)))
             pnlLong == FMul(FMul(F(0 - 1), b.info.Rate), FDiv(F(8), F(b.info.Interval)))
         IN  FMul(FAdd(pnlShort, pnlLong), F(100))
    ELSE Zero

\* Faulty variant: the long side carries sign +1 and no side is normalised to 8 hours.
FundingSpread8hUnsigned(a, b) ==
    IF a.found /\ b.found /\ a.info.Interval > 0 /\ b.info.Interval > 0
    THEN FMul(FAdd(a.info.Rate, b.info.Rate), F(100))
    ELSE Nil

\* fundingSpread8h for the lookups a (short side) and b (long side).
FundingSpread8hOf(a, b) ==
    IF a.found /\ b.found /\ a.info.Interval > 0 /\ b.info.Interval > 0
    THEN LET pnlShort == FMul(FMul(F(1), a.info.Rate), FDiv(F(8), F(a.info.Interval)))
             pnlLong == FMul(FMul(F(0 - 1), b.info.Rate), FDiv(F(8), F(b.info.Interval)))
         IN  FMul(FAdd(pnlShort, pnlLong), F(100))
    ELSE Nil

SpreadWithFunding(symbol, exchangeA, exchangeB, tickerA, tickerB, bfr, mfr) ==
    LET fundingA == getFundingRateInfo(symbol, exchangeA, bfr, mfr)
        fundingB == getFundingRateInfo(symbol, exchangeB, bfr, mfr)
    IN  [UnifiedSymbol    |-> symbol,
         ExchangeShort    |-> exchangeA,
         ExchangeLong     |-> exchangeB,
         EntrySpread      |-> EntrySpreadOf(tickerA, tickerB).v,
         OpenDiff         |-> OpenDiffOf(tickerA, tickerB),
         ExitSpread       |-> ExitSpreadOf(tickerA, tickerB).v,
         ExitDiff         |-> ExitDiffOf(tickerA, tickerB),
         FundingSpread8h  |-> FundingSpread8hOf(fundingA, fundingB),
         FundingRateShort |-> fundingA.info,
         FundingRateLong  |-> fundingB.info]

SymbolPairsWithFunding(symbol, exchangeData, exchanges, bfr, mfr) ==
    IF Cardinality(DOMAIN exchangeData) < 2 THEN << >>
    ELSE LET ix == PairLoop(Len(exchanges), 1, 1)
         IN  [k \in 1..Len(ix) |->
                 LET exchangeA == exchanges[ix[k][1]]
                     exchangeB == exchanges[ix[k][2]]
                 IN  [symbol |-> symbol, A |-> exchangeA, B |-> exchangeB,
                      divisors |-> EntrySpreadOf(exchangeData[exchangeA], exchangeData[exchangeB]).divisors
                                   \o ExitSpreadOf(exchangeData[exchangeA], exchangeData[exchangeB]).divisors,
                      spread |-> SpreadWithFunding(symbol, exchangeA, exchangeB,
                                        exchangeData[exchangeA], exchangeData[exchangeB],
                                        bfr, mfr)]]

RECURSIVE EvaluateWithFunding(_, _, _, _, _)
EvaluateWithFunding(t, symOrder, exOrder, bfr, mfr) ==
    IF symOrder = << >> THEN << >>
    ELSE LET symbol == Head(symOrder)
         IN  SymbolPairsWithFunding(symbol, t[symbol], exOrder[symbol], bfr, mfr)
             \o EvaluateWithFunding(t, Tail(symOrder), exOrder, bfr, mfr)

CalculateSpreadsWithFunding(t, symOrder, exOrder, bfr, mfr) ==
    SortSlice(Emitted(EvaluateWithFunding(t, symOrder, exOrder, bfr, mfr)))

----------------------------------------------------------------------------
(* json.Marshal of a Spread: the object as a function from keys to values *)

JsonNull == [null |-> TRUE]

RequiredKeys ==
    {"unified_symbol", "exchange_short", "exchange_long",
     "entry_spread", "open_diff", "exit_spread", "exit_diff"}

JsonField(spread, key) ==
    CASE key = "unified_symbol"     -> spread.UnifiedSymbol
      [] key = "exchange_short"     -> spread.ExchangeShort
      [] key = "exchange_long"      -> spread.ExchangeLong
      [] key = "entry_spread"       -> spread.EntrySpread
      [] key = "open_diff"          -> spread.OpenDiff
      [] key = "exit_spread"        -> spread.ExitSpread
      [] key = "exit_diff"          -> spread.ExitDiff
      [] key = "funding_spread_8h"  -> spread.FundingSpread8h
      [] key = "funding_rate_short" -> spread.FundingRateShort
      [] key = "funding_rate_long"  -> spread.FundingRateLong

\* Spread of calculator.go: `json:"funding_spread_8h"`, a nil pointer is null.
MarshalSpread(spread) ==
    [key \in RequiredKeys \cup {"funding_spread_8h"} |->
        IF key = "funding_spread_8h" /\ JsonField(spread, key) = Nil
        THEN JsonNull
        ELSE JsonField(spread, key)]

\* Spread of part_006: the three pointer fields are `omitempty`.
MarshalSpreadWithFunding(spread) ==
    [key \in RequiredKeys \cup
             {k \in {"funding_spread_8h", "funding_rate_short", "funding_rate_long"} :
                 JsonField(spread, k) # Nil} |->
        JsonField(spread, key)]

----------------------------------------------------------------------------
(* Specification of the engine on an arbitrary price table *)

\* No polling cycle has started.
NoCycle ==
    /\ allTickers = << >>
    /\ mu = "unlocked"
    /\ wg = 0
    /\ goroutines = << >>
    /\ fetched = << >>
    /\ log = {}
    /\ cycle = 0
    /\ earlier = << >>

\* No symbol conversion has been called.
NoSymbol ==
    /\ symbolArg = {}
    /\ symbolRet = << >>

\* No call of BinanceAdapter.UpdateFundingRates is running.
NoUpdate ==
    update = [pc |-> "idle", calls |-> 0, wg |-> 0, premium |-> "none", info |-> "none",
              errPremium |-> << >>, errInfo |-> << >>,
              premiumIndexes |-> << >>, fundingInfos |-> << >>,
              mu |-> "unlocked", before |-> << >>, returned |-> FALSE, err |-> << >>]

\* The adapter is not constructed and nothing runs.
NoAdapter ==
    /\ details = << >>
    /\ ctx = 0
    /\ cancelled = {}
    /\ symbols = << >>
    /\ FundingRates = << >>
    /\ wrote = << >>
    /\ conns = << >>
    /\ adapter = [pc |-> "none", caller |-> "none", i |-> 0]
    /\ shutdown = "running"
    /\ NoUpdate

\* Any table over the two exchanges of main, symbols with an empty map included.
InitMain ==
    \E K \in SUBSET (Symbols \X MainExchanges) :
    \E q \in [K -> TickerBidAsk] :
    \E E0 \in SUBSET (Symbols \ SymbolsOf(K)) :
        tickers = MakeTable(K, q, E0)

\* One symbol quoted by up to MaxExchanges exchanges.
InitMany ==
    \E K \in SUBSET ({"BTC/USDT:PERP"} \X ManyExchanges) :
    \E q \in [K -> FlatTickers] :
        tickers = MakeTable(K, q, {})

\* The example scenario: A{bid 100.4, ask 100.5}, B{bid 100.0, ask 100.1}.
ExampleTable ==
    [s \in {"BTC/USDT:PERP"} |->
        [e \in {"A", "B"} |->
            IF e = "A" THEN [Bid |-> Norm(1004, 10), Ask |-> Norm(1005, 10)]
                       ELSE [Bid |-> Norm(1000, 10), Ask |-> Norm(1001, 10)]]]

Init ==
    /\ InitMain \/ InitMany \/ tickers = ExampleTable
    /\ pc = "ready"
    /\ engine = Nil
    /\ spreads = << >>
    /\ evaluated = << >>
    /\ binanceFundingRates = << >>
    /\ mexcFundingRates = << >>
    /\ published = << >>
    /\ collected = << >>
    /\ NoCycle
    /\ NoSymbol
    /\ NoAdapter

Calculate ==
    /\ pc = "ready"
    /\ \E symOrder \in Orders(DOMAIN tickers) :
       \E exOrder \in ExchangeOrders(tickers) :
          /\ spreads' = CalculateSpreads(tickers, symOrder, exOrder)
          /\ evaluated' = Evaluate(tickers, symOrder, exOrder)
    /\ engine' = "calculator.go"
    /\ pc' = "done"
    /\ tickers' = TickersAfterCall(tickers)
    /\ UNCHANGED <<binanceFundingRates, mexcFundingRates, published, collected>>
    /\ UNCHANGED <<mainVars, symbolVars, adapterVars>>

Next == Calculate

Spec == Init /\ [][Next]_vars

----------------------------------------------------------------------------
(* Specification of the engines with funding-rate maps and the publisher *)

RateStrings ==
    { <<"0", ".", "0", "1">>, <<"-", "0", ".", "0", "2">>, << >>, <<"x">> }

MexcRates == {Norm(1, 100), Norm(0 - 2, 100)}

Intervals == {0, 4, 8}

FundingExchanges == {"Binance", "Mexc", "Bybit"}

BinanceFundingRateDto ==
    [LastFundingRate : RateStrings, FundingIntervalHours : Intervals, NextFundingTime : {0}]

MexcFundingRateDto ==
    [FundingRate : MexcRates, CollectCycle : Intervals, NextSettleTime : {0}]

\* A funding map is empty, holds the quoted symbol, or holds only another symbol.
FundingMaps(Dto) ==
    {<< >>} \cup {[x \in {"BTC/USDT:PERP"} |-> dto] : dto \in Dto}
            \cup {[x \in {"ETH/USDT:PERP"} |-> CHOOSE dto \in Dto : TRUE]}

InitFunding ==
    /\ \E K \in SUBSET ({"BTC/USDT:PERP"} \X FundingExchanges) :
       \E q \in [K -> FlatTickers] :
           tickers = MakeTable(K, q, {})
    /\ binanceFundingRates \in FundingMaps(BinanceFundingRateDto)
    /\ mexcFundingRates \in FundingMaps(MexcFundingRateDto)
    /\ pc = "ready"
    /\ engine = Nil
    /\ spreads = << >>
    /\ evaluated = << >>
    /\ published = << >>
    /\ collected = << >>
    /\ NoCycle
    /\ NoSymbol
    /\ NoAdapter

\* The engine may be called again on the table of an earlier call.
CalculateWithFunding ==
    /\ pc \in {"ready", "done"}
    /\ \E symOrder \in Orders(DOMAIN tickers) :
       \E exOrder \in ExchangeOrders(tickers) :
          /\ spreads' = CalculateSpreadsWithFunding(tickers, symOrder, exOrder,
                            binanceFundingRates, mexcFundingRates)
          /\ evaluated' = EvaluateWithFunding(tickers, symOrder, exOrder,
                            binanceFundingRates, mexcFundingRates)
    /\ engine' = "part_006"
    /\ pc' = "done"
    /\ tickers' = TickersAfterCall(tickers)
    /\ UNCHANGED <<binanceFundingRates, mexcFundingRates, published, collected>>
    /\ UNCHANGED <<mainVars, symbolVars, adapterVars>>

\* for i, s := range spreads { body, err := json.Marshal(s); ch.Publish(body) }
Publish ==
    /\ pc = "done"
    /\ published' = [k \in DOMAIN spreads |->
                        IF engine = "part_006"
                        THEN MarshalSpreadWithFunding(spreads[k])
                        ELSE MarshalSpread(spreads[k])]
    /\ pc' = "published"
    /\ UNCHANGED <<tickers, engine, spreads, evaluated,
                   binanceFundingRates, mexcFundingRates, collected>>
    /\ UNCHANGED <<mainVars, symbolVars, adapterVars>>

NextFunding == Calculate \/ CalculateWithFunding \/ Publish

SpecFunding == InitFunding /\ [][NextFunding]_vars

----------------------------------------------------------------------------
(* calculate_price_spreads, the reference pipeline of part_000 *)

None == [none |-> TRUE]
Some(t) == [spread_threshold |-> t]

\* The data frame: one row per (exchange, unified_symbol).
DataFrame(t) ==
    UNION { {[exchange |-> e, unified_symbol |-> s, bid |-> t[s][e].Bid, ask |-> t[s][e].Ask]
                : e \in DOMAIN t[s]} : s \in DOMAIN t }

\* df.join(df, [unified_symbol], [unified_symbol], Inner, suffix "_long")
\*   .filter(col("exchange").neq(col("exchange_long")))
SelfJoin(df) ==
    {[exchange |-> l.exchange, unified_symbol |-> l.unified_symbol,
      bid |-> l.bid, ask |-> l.ask,
      exchange_long |-> r.exchange, bid_long |-> r.bid, ask_long |-> r.ask]
        : <<l, r>> \in {x \in df \X df :
                           /\ x[1].unified_symbol = x[2].unified_symbol
                           /\ x[1].exchange # x[2].exchange}}

\* The three with_columns steps: average prices, differences, spreads.
WithColumns(row) ==
    LET open_avg_price == FDiv(FAdd(row.bid, row.ask_long), F(2))
        exit_avg_price == FDiv(FAdd(row.bid_long, row.ask), F(2))
        open_diff == FSub(row.bid, row.ask_long)
        exit_diff == FSub(row.bid_long, row.ask)
    IN  [exchange |-> row.exchange, unified_symbol |-> row.unified_symbol,
         exchange_long |-> row.exchange_long,
         open_diff |-> open_diff, exit_diff |-> exit_diff,
         entry_spread |-> FMul(FDiv(open_diff, open_avg_price), F(100)),
         exit_spread |-> FMul(FDiv(exit_diff, exit_avg_price), F(100))]

\* sort_by_exprs([entry_spread], descending): the sort keeps no order among
\* equal keys, so every non-increasing arrangement is a possible outcome.
SortDescending(rows) ==
    {o \in Orders(rows) :
        \A i \in 1..Len(o) : \A j \in 1..Len(o) :
            i < j => FGE(o[i].entry_spread, o[j].entry_spread)}

\* Faulty variant: gt instead of gt_eq.
FilterThresholdStrict(frame, filters) ==
    IF filters = None THEN frame
    ELSE SelectSeq(frame, LAMBDA r : FGT(r.entry_spread, filters.spread_threshold))

\* if let Some(filters) = &self.filters
\*     { spreads.filter(col("entry_spread").gt_eq(filters.spread_threshold)) }
FilterThreshold(frame, filters) ==
    IF filters = None THEN frame
    ELSE SelectSeq(frame, LAMBDA r : FGE(r.entry_spread, filters.spread_threshold))

\* The frames a call can collect.
calculate_price_spreads(t, filters) ==
    {FilterThreshold(sorted, filters) :
        sorted \in SortDescending({WithColumns(row) : row \in SelfJoin(DataFrame(t))})}

----------------------------------------------------------------------------
(* Specification of the reference pipeline with its threshold filter *)

MaxRuns == 2

\* Quotes at non-zero prices: a zero bid against a zero ask would give 0/0, and
\* the place of NaN in a Polars sort and comparison depends on its version.
NonZeroTickers == {q \in TickerBidAsk : q.Bid.n # 0 /\ q.Ask.n # 0}

Thresholds == {Zero, Norm(200, 3), F(100)}

InitThreshold ==
    /\ \E K \in SUBSET (Symbols \X MainExchanges) :
       \E q \in [K -> NonZeroTickers] :
           tickers = MakeTable(K, q, {})
    /\ pc = "ready"
    /\ engine = Nil
    /\ spreads = << >>
    /\ evaluated = << >>
    /\ binanceFundingRates = << >>
    /\ mexcFundingRates = << >>
    /\ published = << >>
    /\ collected = << >>
    /\ NoCycle
    /\ NoSymbol
    /\ NoAdapter

Collect ==
    /\ Len(collected) < MaxRuns
    /\ \E filters \in {None} \cup {Some(t) : t \in Thresholds} :
       \E frame \in calculate_price_spreads(tickers, filters) :
           collected' = Append(collected, [filters |-> filters, frame |-> frame])
    /\ UNCHANGED <<tickers, pc, engine, spreads, evaluated,
                   binanceFundingRates, mexcFundingRates, published>>
    /\ UNCHANGED <<mainVars, symbolVars, adapterVars>>

NextThreshold == Collect

SpecThreshold == InitThreshold /\ [][NextThreshold]_vars

----------------------------------------------------------------------------
(* The adapters: symbol conversion and ticker conversion.  A Go string is a *)
(* sequence of one-character strings; an error is the chain of its messages,*)
(* outermost first (fmt.Errorf with %w wraps), and << >> is the nil error.  *)

ErrInvalidUnifiedSymbol == "invalid unified symbol format"
ErrUnsupportedQuoteCurrency == "unsupported quote currency"

\* errors.Is(err, target): target is err or is wrapped by it.
ErrorsIs(err, target) == \E k \in DOMAIN err : err[k] = target

USDT == <<"U", "S", "D", "T">>
BTC == <<"B", "T", "C">>
ETH == <<"E", "T", "H">>
SOL == <<"S", "O", "L">>

HasSuffix(s, suffix) ==
    /\ Len(s) >= Len(suffix)
    /\ SubSeq(s, Len(s) - Len(suffix) + 1, Len(s)) = suffix

TrimSuffix(s, suffix) ==
    IF HasSuffix(s, suffix) THEN SubSeq(s, 1, Len(s) - Len(suffix)) ELSE s

\* Faulty variant: the unified symbol is built without the ":PERP" part.
UnwrapBinanceSymbolNoPerp(binanceSymbol) ==
    IF ~HasSuffix(binanceSymbol, USDT)
    THEN [symbol |-> << >>, err |-> <<ErrUnsupportedQuoteCurrency>>]
    ELSE [symbol |-> TrimSuffix(binanceSymbol, USDT) \o <<"/">> \o USDT,
          err |-> << >>]

UnwrapBinanceSymbol(binanceSymbol) ==
    IF ~HasSuffix(binanceSymbol, USDT)
    THEN [symbol |-> << >>, err |-> <<ErrUnsupportedQuoteCurrency>>]
    ELSE [symbol |-> TrimSuffix(binanceSymbol, USDT)
                        \o <<"/">> \o USDT \o <<":", "P", "E", "R", "P">>,
          err |-> << >>]

\* Faulty variant: the suffix tested and trimmed is "USDT", as for Binance.
UnwrapMexcSymbolNoUnderscore(mexcSymbol) ==
    IF ~HasSuffix(mexcSymbol, USDT)
    THEN [symbol |-> << >>, err |-> <<ErrUnsupportedQuoteCurrency>>]
    ELSE [symbol |-> TrimSuffix(mexcSymbol, USDT)
                        \o <<"/">> \o USDT \o <<":", "P", "E", "R", "P">>,
          err |-> << >>]

UnwrapMexcSymbol(mexcSymbol) ==
    IF ~HasSuffix(mexcSymbol, <<"_">> \o USDT)
    THEN [symbol |-> << >>, err |-> <<ErrUnsupportedQuoteCurrency>>]
    ELSE [symbol |-> TrimSuffix(mexcSymbol, <<"_">> \o USDT)
                        \o <<"/">> \o USDT \o <<":", "P", "E", "R", "P">>,
          err |-> << >>]

\* shared.TickerBidAsk{}
ZeroTicker ==
    [Symbol |-> << >>, UnifiedSymbol |-> << >>,
     Bid |-> Zero, Ask |-> Zero, VolumeUSD |-> Zero]

\* BinanceBookTickerDto.ToTickerBidAsk and MexcTickerDto.ToTickerBidAsk.
ToTickerBidAsk(exchange, dto) ==
    IF exchange = "Binance"
    THEN LET u == UnwrapBinanceSymbol(dto.Symbol)
             bid == ParseFloat(dto.BidPrice)
             ask == ParseFloat(dto.AskPrice)
         IN  IF u.err # << >>
             THEN [ticker |-> ZeroTicker,
                   err |-> <<"failed to unwrap Binance symbol">> \o u.err]
             ELSE IF bid.err
             THEN [ticker |-> ZeroTicker,
                   err |-> <<"failed to parse Binance bid price", "strconv.ParseFloat">>]
             ELSE IF ask.err
             THEN [ticker |-> ZeroTicker,
                   err |-> <<"failed to parse Binance ask price", "strconv.ParseFloat">>]
             ELSE [ticker |-> [Symbol |-> dto.Symbol, UnifiedSymbol |-> u.symbol,
                               Bid |-> bid.r, Ask |-> ask.r,
                               VolumeUSD |-> F(1000000)],
                   err |-> << >>]
    ELSE LET u == UnwrapMexcSymbol(dto.Symbol)
         IN  IF u.err # << >>
             THEN [ticker |-> ZeroTicker,
                   err |-> <<"failed to unwrap Mexc symbol">> \o u.err]
             ELSE [ticker |-> [Symbol |-> dto.Symbol, UnifiedSymbol |-> u.symbol,
                               Bid |-> dto.Bid1, Ask |-> dto.Ask1,
                               VolumeUSD |-> dto.Amount24],
                   err |-> << >>]

----------------------------------------------------------------------------
(* The polling loop of main: per cycle a fresh table, three goroutines and  *)
(* a WaitGroup, then CalculateSpreads on the merged table.                  *)

MaxCycles == 2      \* polling cycles run by the model

TickerGoroutines == MainExchanges

Goroutines == TickerGoroutines \cup {"BinanceFunding"}

\* What the exchanges answer: a Binance book with a non-USDT symbol, an
\* unparsable bid, an unparsable (empty) ask and a good ticker; three Mexc
\* books, the last with two tickers of one symbol.
BinanceTickersDto ==
    << [Symbol |-> ETH \o BTC, BidPrice |-> <<"1">>, AskPrice |-> <<"1">>],
       [Symbol |-> ETH \o USDT, BidPrice |-> <<"x">>, AskPrice |-> <<"1">>],
       [Symbol |-> SOL \o USDT, BidPrice |-> <<"1">>, AskPrice |-> << >>],
       [Symbol |-> BTC \o USDT, BidPrice |-> <<"2">>, AskPrice |-> <<"2">>] >>

MexcTickersDto ==
    { << [Symbol |-> BTC \o <<"_", "U", "S", "D">>, Bid1 |-> F(1), Ask1 |-> F(1), Amount24 |-> F(5)],
         [Symbol |-> BTC \o <<"_">> \o USDT, Bid1 |-> F(1), Ask1 |-> F(1), Amount24 |-> F(5)],
         [Symbol |-> ETH \o <<"_">> \o USDT, Bid1 |-> F(1), Ask1 |-> F(1), Amount24 |-> F(5)] >>,
      << [Symbol |-> BTC \o <<"_">> \o USDT, Bid1 |-> F(3), Ask1 |-> F(3), Amount24 |-> F(5)] >>,
      << [Symbol |-> BTC \o <<"_">> \o USDT, Bid1 |-> F(1), Ask1 |-> F(1), Amount24 |-> F(5)],
         [Symbol |-> BTC \o <<"_">> \o USDT, Bid1 |-> F(2), Ask1 |-> F(2), Amount24 |-> F(6)] >> }

\* The returns of BinanceAdapter.GetTickers and MexcAdapter.GetTickers.
GetTickersReturns(exchange) ==
    IF exchange = "Binance"
    THEN {[data |-> << >>, err |-> <<m>>] :
             m \in {"failed to make HTTP request to Binance",
                    "Binance API returned non-OK status",
                    "failed to read Binance response body",
                    "failed to unmarshal Binance tickers"}}
         \cup {[data |-> BinanceTickersDto, err |-> << >>]}
    ELSE {[data |-> << >>, err |-> <<m>>] :
             m \in {"failed to make HTTP request to Mexc",
                    "Mexc API returned non-OK status",
                    "failed to read Mexc response body",
                    "failed to unmarshal Mexc tickers",
                    "Mexc API returned success: false"}}
         \cup {[data |-> d, err |-> << >>] : d \in MexcTickersDto}

\* http.Get is called on the default client, which has no timeout: the call
\* may never return.
NeverReturns == [data |-> << >>, err |-> <<"never returns">>]

PremiumIndexes ==
    << [Symbol |-> ETH \o BTC, LastFundingRate |-> <<"0", ".", "0", "1">>, NextFundingTime |-> 0],
       [Symbol |-> BTC \o USDT, LastFundingRate |-> <<"0", ".", "0", "1">>, NextFundingTime |-> 0] >>

FundingInfos ==
    { << >>, << [Symbol |-> BTC \o USDT, FundingIntervalHours |-> 4] >> }

\* The loop of UpdateFundingRates over premiumIndexes, on the cache.
RECURSIVE StoreFundingRates(_, _, _)
StoreFundingRates(cache, premiumIndexes, fundingInfos) ==
    IF premiumIndexes = << >> THEN cache
    ELSE LET premiumIndex == Head(premiumIndexes)
             u == UnwrapBinanceSymbol(premiumIndex.Symbol)
             infos == {k \in DOMAIN fundingInfos :
                          fundingInfos[k].Symbol = premiumIndex.Symbol}
             combinedRate ==
                 [Symbol |-> premiumIndex.Symbol,
                  LastFundingRate |-> premiumIndex.LastFundingRate,
                  NextFundingTime |-> premiumIndex.NextFundingTime,
                  FundingIntervalHours |->
                      IF infos # {}
                      THEN fundingInfos[CHOOSE k \in infos : \A m \in infos : m <= k]
                               .FundingIntervalHours
                      ELSE 8]
         IN  IF u.err # << >>
             THEN StoreFundingRates(cache, Tail(premiumIndexes), fundingInfos)
             ELSE StoreFundingRates(
                      [x \in DOMAIN cache \cup {u.symbol} |->
                          IF x = u.symbol THEN combinedRate ELSE cache[x]],
                      Tail(premiumIndexes), fundingInfos)

\* The returns of BinanceAdapter.UpdateFundingRates: an error of one of the
\* two requests and the cache as it was, or the cache with the rates stored.
UpdateFundingRates(cache) ==
    {[cache |-> cache, err |-> <<m>>] :
        m \in {"failed to make HTTP request to Binance premium index",
               "failed to make HTTP request to Binance funding info"}}
    \cup {[cache |-> StoreFundingRates(cache, PremiumIndexes, infos), err |-> << >>] :
             infos \in FundingInfos}

\* Faulty variant: a ticker is stored only when the exchange has none for the symbol.
InsertTickerIfAbsent(exchangeData, exchange, genericTicker) ==
    IF exchange \in DOMAIN exchangeData THEN exchangeData
    ELSE [e \in DOMAIN exchangeData \cup {exchange} |->
             IF e = exchange THEN genericTicker ELSE exchangeData[e]]

\* exchangeData[exchange] = genericTicker on the inner map of a symbol.
InsertTicker(exchangeData, exchange, genericTicker) ==
    [e \in DOMAIN exchangeData \cup {exchange} |->
        IF e = exchange THEN genericTicker ELSE exchangeData[e]]

\* Faulty variant: the table is allocated once, outside the loop.
MakeAllTickersReused == allTickers

\* allTickers := make(map[string]map[string]shared.TickerBidAsk)
MakeAllTickers == << >>

\* Faulty variant: wg.Wait returns while one goroutine is still running.
WaitReturnsEarly(n) == n <= 1

\* wg.Wait() returns when the counter is zero.
WaitReturns(n) == n = 0

\* defer wg.Done()
WgDone(n) == n - 1

\* Faulty variant: the lock is granted whoever holds it.
UnlockedAlways(m) == TRUE

\* mu.Lock() is granted when nobody holds the mutex.
Unlocked(m) == m = "unlocked"

\* Faulty variant: a failed fetch ends the process (log.Fatal).
AfterFetchErrorFatal(p) == "exited"

\* The position of main after a goroutine logged a failed fetch with
\* slog.Error and returned: main is not affected.
AfterFetchError(p) == p

\* Faulty variant: every conversion error is logged as a warning.
ShouldWarnAlways(err) == TRUE

\* if !errors.Is(err, shared.ErrUnsupportedQuoteCurrency) { slog.Warn(...) }
ShouldWarn(err) == ~ErrorsIs(err, ErrUnsupportedQuoteCurrency)

Started(name) == [pc |-> name, i |-> 0, genericTicker |-> ZeroTicker]

Finished == [pc |-> "done", i |-> 0, genericTicker |-> ZeroTicker]

\* The goroutine at element i of the range loop, or finished after the last.
RangeAt(data, i) ==
    IF i > Len(data) THEN Finished
    ELSE [pc |-> "ToTickerBidAsk", i |-> i, genericTicker |-> ZeroTicker]

\* The WaitGroup counter after a step that leaves goroutine record g.
WgAfter(g) == IF g.pc = "done" THEN WgDone(wg) ELSE wg

engineVars == <<engine, mexcFundingRates, published, collected>>

InitCycles ==
    /\ tickers = << >>
    /\ pc = "tick"
    /\ engine = Nil
    /\ spreads = << >>
    /\ evaluated = << >>
    /\ binanceFundingRates = << >>
    /\ mexcFundingRates = << >>
    /\ published = << >>
    /\ collected = << >>
    /\ NoCycle
    /\ NoSymbol
    /\ NoAdapter

\* for range ticker.C { allTickers := make(...); var mu; var wg;
\*                      wg.Add(1); go ...; wg.Add(1); go ...; wg.Add(1); go ... }
StartCycle ==
    /\ pc = "tick"
    /\ cycle < MaxCycles
    /\ allTickers' = MakeAllTickers
    /\ mu' = "unlocked"
    /\ wg' = 3
    /\ goroutines' = [g \in Goroutines |->
                         IF g = "BinanceFunding" THEN Started("UpdateFundingRates")
                                                 ELSE Started("GetTickers")]
    /\ fetched' = << >>
    /\ log' = {}
    /\ spreads' = << >>
    /\ evaluated' = << >>
    /\ earlier' = tickers
    /\ pc' = "Wait"
    /\ UNCHANGED <<tickers, binanceFundingRates, cycle, engineVars, symbolVars, adapterVars>>

\* dtos, duration, err := adapter.GetTickers(); if err != nil { slog.Error; return }
GoGetTickers(g) ==
    /\ g \in DOMAIN goroutines
    /\ goroutines[g].pc = "GetTickers"
    /\ \E ret \in GetTickersReturns(g) \cup {NeverReturns} :
          IF ret = NeverReturns
          THEN /\ goroutines' = [goroutines EXCEPT ![g].pc = "blocked"]
               /\ UNCHANGED <<fetched, log, wg, pc>>
          ELSE /\ fetched' = [x \in DOMAIN fetched \cup {g} |->
                                 IF x = g THEN ret ELSE fetched[x]]
               /\ IF ret.err # << >>
                  THEN /\ log' = log \cup {[level |-> "ERROR",
                                           msg |-> <<"Failed to get tickers", g>>,
                                           symbol |-> << >>, error |-> ret.err]}
                       /\ goroutines' = [goroutines EXCEPT ![g] = Finished]
                       /\ wg' = WgDone(wg)
                       /\ pc' = AfterFetchError(pc)
                  ELSE /\ goroutines' = [goroutines EXCEPT ![g] = RangeAt(ret.data, 1)]
                       /\ wg' = WgAfter(RangeAt(ret.data, 1))
                       /\ UNCHANGED <<log, pc>>
    /\ UNCHANGED <<tickers, allTickers, mu, spreads, evaluated, binanceFundingRates,
                   cycle, earlier, engineVars, symbolVars, adapterVars>>

\* genericTicker, err := dto.ToTickerBidAsk()
\* if err != nil { if !errors.Is(...) { slog.Warn(...) }; continue }
GoToTickerBidAsk(g) ==
    /\ g \in DOMAIN goroutines
    /\ goroutines[g].pc = "ToTickerBidAsk"
    /\ LET i == goroutines[g].i
           dto == fetched[g].data[i]
           c == ToTickerBidAsk(g, dto)
       IN  IF c.err # << >>
           THEN /\ log' = IF ShouldWarn(c.err)
                          THEN log \cup {[level |-> "WARN",
                                          msg |-> <<"Failed to convert DTO", g>>,
                                          symbol |-> dto.Symbol, error |-> c.err]}
                          ELSE log
                /\ goroutines' = [goroutines EXCEPT ![g] = RangeAt(fetched[g].data, i + 1)]
                /\ wg' = WgAfter(RangeAt(fetched[g].data, i + 1))
           ELSE /\ goroutines' = [goroutines EXCEPT
                                     ![g] = [pc |-> "Lock", i |-> i, genericTicker |-> c.ticker]]
                /\ UNCHANGED <<log, wg>>
    /\ UNCHANGED <<tickers, pc, allTickers, mu, fetched, spreads, evaluated,
                   binanceFundingRates, cycle, earlier, engineVars, symbolVars, adapterVars>>

\* mu.Lock()
GoLock(g) ==
    /\ g \in DOMAIN goroutines
    /\ goroutines[g].pc = "Lock"
    /\ Unlocked(mu)
    /\ mu' = g
    /\ goroutines' = [goroutines EXCEPT ![g].pc = "check"]
    /\ UNCHANGED <<tickers, pc, allTickers, wg, fetched, log, spreads, evaluated,
                   binanceFundingRates, cycle, earlier, engineVars, symbolVars, adapterVars>>

\* if _, ok := allTickers[genericTicker.UnifiedSymbol]; !ok
GoCheck(g) ==
    /\ g \in DOMAIN goroutines
    /\ goroutines[g].pc = "check"
    /\ goroutines' = [goroutines EXCEPT
                         ![g].pc = IF goroutines[g].genericTicker.UnifiedSymbol
                                        \in DOMAIN allTickers
                                   THEN "insert" ELSE "make"]
    /\ UNCHANGED <<tickers, pc, allTickers, mu, wg, fetched, log, spreads, evaluated,
                   binanceFundingRates, cycle, earlier, engineVars, symbolVars, adapterVars>>

\* allTickers[genericTicker.UnifiedSymbol] = make(map[string]shared.TickerBidAsk)
GoMake(g) ==
    /\ g \in DOMAIN goroutines
    /\ goroutines[g].pc = "make"
    /\ LET unifiedSymbol == goroutines[g].genericTicker.UnifiedSymbol
       IN  allTickers' = [s \in DOMAIN allTickers \cup {unifiedSymbol} |->
                             IF s = unifiedSymbol THEN << >> ELSE allTickers[s]]
    /\ goroutines' = [goroutines EXCEPT ![g].pc = "insert"]
    /\ UNCHANGED <<tickers, pc, mu, wg, fetched, log, spreads, evaluated,
                   binanceFundingRates, cycle, earlier, engineVars, symbolVars, adapterVars>>

\* allTickers[genericTicker.UnifiedSymbol]["Binance"] = genericTicker
GoInsert(g) ==
    /\ g \in DOMAIN goroutines
    /\ goroutines[g].pc = "insert"
    /\ LET genericTicker == goroutines[g].genericTicker
           unifiedSymbol == genericTicker.UnifiedSymbol
       IN  /\ unifiedSymbol \in DOMAIN allTickers
           /\ allTickers' =
                 [allTickers EXCEPT ![unifiedSymbol] =
                     InsertTicker(allTickers[unifiedSymbol], g, genericTicker)]
    /\ goroutines' = [goroutines EXCEPT ![g].pc = "Unlock"]
    /\ UNCHANGED <<tickers, pc, mu, wg, fetched, log, spreads, evaluated,
                   binanceFundingRates, cycle, earlier, engineVars, symbolVars, adapterVars>>

\* mu.Unlock(), and the next element of the range loop (or the deferred wg.Done)
GoUnlock(g) ==
    /\ g \in DOMAIN goroutines
    /\ goroutines[g].pc = "Unlock"
    /\ mu' = "unlocked"
    /\ goroutines' = [goroutines EXCEPT
                         ![g] = RangeAt(fetched[g].data, goroutines[g].i + 1)]
    /\ wg' = WgAfter(RangeAt(fetched[g].data, goroutines[g].i + 1))
    /\ UNCHANGED <<tickers, pc, allTickers, fetched, log, spreads, evaluated,
                   binanceFundingRates, cycle, earlier, engineVars, symbolVars, adapterVars>>

\* duration, err := binanceAdapter.UpdateFundingRates(); if err != nil { slog.Error; return }
GoUpdateFundingRates ==
    /\ "BinanceFunding" \in DOMAIN goroutines
    /\ goroutines["BinanceFunding"].pc = "UpdateFundingRates"
    /\ \/ /\ goroutines' = [goroutines EXCEPT !["BinanceFunding"].pc = "blocked"]
          /\ UNCHANGED <<binanceFundingRates, log, wg, pc>>
       \/ \E ret \in UpdateFundingRates(binanceFundingRates) :
             /\ binanceFundingRates' = ret.cache
             /\ goroutines' = [goroutines EXCEPT !["BinanceFunding"] = Finished]
             /\ wg' = WgDone(wg)
             /\ IF ret.err # << >>
                THEN /\ log' = log \cup {[level |-> "ERROR",
                                         msg |-> <<"Failed to update Binance funding rates">>,
                                         symbol |-> << >>, error |-> ret.err]}
                     /\ pc' = AfterFetchError(pc)
                ELSE UNCHANGED <<log, pc>>
    /\ UNCHANGED <<tickers, allTickers, mu, fetched, spreads, evaluated,
                   cycle, earlier, engineVars, symbolVars, adapterVars>>

\* wg.Wait()
Wait ==
    /\ pc = "Wait"
    /\ WaitReturns(wg)
    /\ pc' = "CalculateSpreads"
    /\ UNCHANGED <<tickers, allTickers, mu, wg, goroutines, fetched, log, spreads,
                   evaluated, binanceFundingRates, cycle, earlier, engineVars, symbolVars, adapterVars>>

\* spreads := arbitrage.CalculateSpreads(allTickers), and the end of the loop body
CompleteCycle ==
    /\ pc = "CalculateSpreads"
    /\ \E symOrder \in Orders(DOMAIN allTickers) :
       \E exOrder \in ExchangeOrders(allTickers) :
          /\ spreads' = CalculateSpreads(allTickers, symOrder, exOrder)
          /\ evaluated' = Evaluate(allTickers, symOrder, exOrder)
    /\ tickers' = allTickers
    /\ allTickers' = TickersAfterCall(allTickers)
    /\ cycle' = cycle + 1
    /\ pc' = "tick"
    /\ UNCHANGED <<mu, wg, goroutines, fetched, log, earlier,
                   binanceFundingRates, engineVars, symbolVars, adapterVars>>

NextCycles ==
    \/ StartCycle
    \/ \E g \in TickerGoroutines :
          \/ GoGetTickers(g)
          \/ GoToTickerBidAsk(g)
          \/ GoLock(g)
          \/ GoCheck(g)
          \/ GoMake(g)
          \/ GoInsert(g)
          \/ GoUnlock(g)
    \/ GoUpdateFundingRates
    \/ Wait
    \/ CompleteCycle

SpecCycles == InitCycles /\ [][NextCycles]_vars

\* The Go scheduler runs every runnable goroutine: a step of main or of a
\* goroutine that stays possible is eventually taken.  Whether a request
\* returns is up to the exchange, not to the scheduler.
FairCycles ==
    /\ WF_vars(StartCycle)
    /\ WF_vars(Wait)
    /\ WF_vars(CompleteCycle)
    /\ WF_vars(GoUpdateFundingRates)
    /\ \A g \in TickerGoroutines :
          /\ WF_vars(GoGetTickers(g))
          /\ WF_vars(GoToTickerBidAsk(g))
          /\ WF_vars(GoLock(g))
          /\ WF_vars(GoCheck(g))
          /\ WF_vars(GoMake(g))
          /\ WF_vars(GoInsert(g))
          /\ WF_vars(GoUnlock(g))

SpecCyclesFair == SpecCycles /\ FairCycles

----------------------------------------------------------------------------
(* The symbol conversions on arbitrary strings.  The adapters have no wrap  *)
(* function; WrapBinanceSymbol and WrapMexcSymbol follow the interface of   *)
(* the specification: wrap(UnifiedSymbol) -> exchangeSymbol, failing with   *)
(* InvalidUnifiedSymbolFormat unless the input has exactly two              *)
(* "/"-separated parts, the second being QUOTE:PERP.                        *)

MaxCalls == 3       \* conversions called on the strings of one run

PERP == <<":", "P", "E", "R", "P">>

\* The base and the quote of a unified symbol, or an error.
SplitUnifiedSymbol(unifiedSymbol) ==
    LET slashes == {k \in DOMAIN unifiedSymbol : unifiedSymbol[k] = "/"}
        slash == CHOOSE k \in slashes : TRUE
        second == SubSeq(unifiedSymbol, slash + 1, Len(unifiedSymbol))
    IN  IF Cardinality(slashes) = 1 /\ HasSuffix(second, PERP)
        THEN [base |-> SubSeq(unifiedSymbol, 1, slash - 1),
              quote |-> TrimSuffix(second, PERP),
              err |-> << >>]
        ELSE [base |-> << >>, quote |-> << >>, err |-> <<ErrInvalidUnifiedSymbol>>]

WrapBinanceSymbol(unifiedSymbol) ==
    LET parts == SplitUnifiedSymbol(unifiedSymbol)
    IN  IF parts.err # << >>
        THEN [symbol |-> << >>, err |-> parts.err]
        ELSE [symbol |-> parts.base \o parts.quote, err |-> << >>]

WrapMexcSymbol(unifiedSymbol) ==
    LET parts == SplitUnifiedSymbol(unifiedSymbol)
    IN  IF parts.err # << >>
        THEN [symbol |-> << >>, err |-> parts.err]
        ELSE [symbol |-> parts.base \o <<"_">> \o parts.quote, err |-> << >>]

Bases == { << >>, <<"B">>, <<"B", "_">> }

Endings ==
    { << >>, USDT, <<"_">> \o USDT, <<"U", "S", "D">>,
      <<"/">> \o USDT \o PERP, <<"/", "U", "S", "D">> \o PERP,
      <<"/">> \o USDT, <<"/", "B", "/">> \o USDT \o PERP }

\* Exchange symbols with and without the supported quote, unified symbols
\* with a supported and an unsupported quote, and malformed unified symbols.
Strings == {b \o e : b \in Bases, e \in Endings}

Convert(fn, str) ==
    CASE fn = "UnwrapBinanceSymbol" -> UnwrapBinanceSymbol(str)
      [] fn = "UnwrapMexcSymbol"    -> UnwrapMexcSymbol(str)
      [] fn = "WrapBinanceSymbol"   -> WrapBinanceSymbol(str)
      [] fn = "WrapMexcSymbol"      -> WrapMexcSymbol(str)

\* The strings a conversion can be called on: the inputs of the run and the
\* symbols returned so far.
Arguments ==
    symbolArg \cup {symbolRet[c].symbol : c \in {x \in DOMAIN symbolRet : symbolRet[x].err = << >>}}

\* One or two strings are given; nothing has been converted.
InitSymbols ==
    /\ symbolArg \in {A \in SUBSET Strings : Cardinality(A) \in {1, 2}}
    /\ symbolRet = << >>
    /\ tickers = << >>
    /\ pc = "ready"
    /\ engine = Nil
    /\ spreads = << >>
    /\ evaluated = << >>
    /\ binanceFundingRates = << >>
    /\ mexcFundingRates = << >>
    /\ published = << >>
    /\ collected = << >>
    /\ NoCycle
    /\ NoAdapter

\* A call of conversion fn on one of the strings, its return recorded.
Call(fn) ==
    /\ Cardinality(DOMAIN symbolRet) < MaxCalls
    /\ \E str \in Arguments :
          /\ <<fn, str>> \notin DOMAIN symbolRet
          /\ symbolRet' = [c \in DOMAIN symbolRet \cup {<<fn, str>>} |->
                              IF c = <<fn, str>> THEN Convert(fn, str) ELSE symbolRet[c]]
    /\ UNCHANGED <<symbolArg, tickers, pc, engine, spreads, evaluated,
                   binanceFundingRates, mexcFundingRates, published, collected, mainVars,
                   adapterVars>>

NextSymbols ==
    \/ Call("UnwrapBinanceSymbol")
    \/ Call("UnwrapMexcSymbol")
    \/ Call("WrapBinanceSymbol")
    \/ Call("WrapMexcSymbol")

SpecSymbols == InitSymbols /\ [][NextSymbols]_vars

----------------------------------------------------------------------------
(* MexcAdapter: construction, Restart, Close and the websocket goroutines   *)
(* of mexc_adapter.go and mexc_websocket.go.  A context is identified by    *)
(* the number of the generation that created it.  The sections that run     *)
(* between a.mu.Lock() and a.mu.Unlock() are single steps.                  *)

MaxRestarts == 2    \* calls of Restart made by the model
MaxContracts == 2   \* contracts listed by the exchange in the lifecycle model
MaxSymbols == 41    \* contracts listed by the exchange in the partition model

mexcSubscriptionsPerConn == 20

RECURSIVE Itoa(_)
Itoa(k) == IF k < 10 THEN <<Digits[k + 1]>> ELSE Itoa(k \div 10) \o <<Digits[(k % 10) + 1]>>

\* The symbol of the k-th contract of the exchange: "C<k>_USDT".
Contract(k) == <<"C">> \o Itoa(k) \o <<"_">> \o USDT

\* MexcContractDetailResponse.Data with n contracts.
Contracts(n) == [k \in 1..n |-> [Symbol |-> Contract(k)]]

\* What the contract-detail request of initConnections can return.
ContractDetailReturns ==
    {[data |-> << >>, err |-> <<m>>] :
        m \in {"failed to fetch Mexc contract details",
               "failed to read Mexc contract details response",
               "failed to unmarshal Mexc contract details",
               "Mexc contract details API returned success: false"}}
    \cup {[data |-> details, err |-> << >>]}

\* Faulty variant: consecutive chunks share a symbol.
NextChunkOverlapping(i) == i + mexcSubscriptionsPerConn - 1

\* i += mexcSubscriptionsPerConn
NextChunk(i) == i + mexcSubscriptionsPerConn

\* end := i + mexcSubscriptionsPerConn; if end > len(a.symbols) { end = len(a.symbols) }
ChunkEnd(i, n) ==
    IF i + mexcSubscriptionsPerConn > n THEN n ELSE i + mexcSubscriptionsPerConn

\* The connections startWsConnections starts for n symbols.
ChunksOf(n) == (n + mexcSubscriptionsPerConn - 1) \div mexcSubscriptionsPerConn

\* The goroutines the model can start, in order of their go statements.
ConnIds ==
    LET lifecycle == (MaxRestarts + 1) * ChunksOf(MaxContracts)
        partition == ChunksOf(MaxSymbols)
    IN  1..(IF lifecycle > partition THEN lifecycle ELSE partition)

\* a.symbols[i:end]
Slice(s, i, end) == [k \in 1..(end - i) |-> s[i + k]]

\* The goroutine started by `go a.manageWsConnection(ctx, symbolsChunk)`.
WsConnection(c, symbolsChunk) ==
    [ctx |-> c, symbols |-> symbolsChunk, pc |-> "Dial", conn |-> "none", ping |-> "none"]

\* The messages conn.ReadMessage can return to a connection subscribed to
\* chunk: a funding-rate push for one of its symbols or for a symbol that
\* does not unwrap, a message of another channel, or a read error.
WsMessages(chunk) ==
    {[channel |-> "push.funding.rate",
      data |-> [Symbol |-> sym, Rate |-> Norm(1, 100), NextSettleTime |-> 0],
      err |-> << >>] :
        sym \in {chunk[k] : k \in DOMAIN chunk} \cup {<<"C", "_", "U", "S", "D">>}}
    \cup {[channel |-> "pong", data |-> Nil, err |-> << >>],
          [channel |-> "", data |-> Nil, err |-> <<"read error">>]}

Running == shutdown # "exited"

\* NewMexcAdapter up to its call of initConnections: an empty cache and the
\* first context.
InitMexcAdapter(lists) ==
    /\ details \in lists
    /\ ctx = 1
    /\ cancelled = {}
    /\ symbols = << >>
    /\ FundingRates = << >>
    /\ wrote = << >>
    /\ conns = << >>
    /\ adapter = [pc |-> "initConnections", caller |-> "NewMexcAdapter", i |-> 0]
    /\ shutdown = "running"

\* initConnections up to its call of startWsConnections; on an error the
\* caller cancels the context: NewMexcAdapter returns no adapter, Restart
\* returns the error.
InitConnections ==
    /\ Running
    /\ adapter.pc = "initConnections"
    /\ \E resp \in ContractDetailReturns :
          IF resp.err # << >>
          THEN /\ cancelled' = cancelled \cup {ctx}
               /\ adapter' = IF adapter.caller = "NewMexcAdapter"
                              THEN [adapter EXCEPT !.pc = "failed"]
                              ELSE [adapter EXCEPT !.pc = "idle", !.caller = "none"]
               /\ UNCHANGED <<symbols, FundingRates, wrote>>
          ELSE /\ symbols' = [k \in DOMAIN resp.data |-> resp.data[k].Symbol]
               /\ FundingRates' = << >>
               /\ wrote' = << >>
               /\ adapter' = [adapter EXCEPT !.pc = "startWsConnections", !.i = 0]
               /\ UNCHANGED cancelled
    /\ UNCHANGED <<details, ctx, conns, shutdown>>
    /\ UNCHANGED <<pollingVars, update>>

\* One iteration of the loop of startWsConnections, or its end.
StartWsConnection ==
    /\ Running
    /\ adapter.pc = "startWsConnections"
    /\ IF adapter.i < Len(symbols)
       THEN LET end == ChunkEnd(adapter.i, Len(symbols))
                symbolsChunk == Slice(symbols, adapter.i, end)
            IN  /\ conns' = Append(conns, WsConnection(ctx, symbolsChunk))
                /\ adapter' = [adapter EXCEPT !.i = NextChunk(adapter.i)]
       ELSE /\ adapter' = [adapter EXCEPT !.pc = "idle", !.caller = "none"]
            /\ UNCHANGED conns
    /\ UNCHANGED <<details, ctx, cancelled, symbols, FundingRates, wrote, shutdown>>
    /\ UNCHANGED <<pollingVars, update>>

\* Restart: a.cancel(); time.Sleep(1 * time.Second)
RestartCancel ==
    /\ Running
    /\ adapter.pc = "idle"
    /\ ctx <= MaxRestarts
    /\ cancelled' = cancelled \cup {ctx}
    /\ adapter' = [adapter EXCEPT !.pc = "Sleep", !.caller = "Restart"]
    /\ UNCHANGED <<details, ctx, symbols, FundingRates, wrote, conns, shutdown>>
    /\ UNCHANGED <<pollingVars, update>>

\* Restart: a.ctx, a.cancel = context.WithCancel(context.Background())
RestartNewContext ==
    /\ Running
    /\ adapter.pc = "Sleep"
    /\ ctx' = ctx + 1
    /\ adapter' = [adapter EXCEPT !.pc = "initConnections"]
    /\ UNCHANGED <<details, cancelled, symbols, FundingRates, wrote, conns, shutdown>>
    /\ UNCHANGED <<pollingVars, update>>

\* The shutdown handler of part_005: mexcAdapter.Close()
Close ==
    /\ shutdown = "running"
    /\ adapter.pc # "none"
    /\ adapter.caller # "NewMexcAdapter"
    /\ cancelled' = cancelled \cup {ctx}
    /\ shutdown' = "closed"
    /\ UNCHANGED <<details, ctx, symbols, FundingRates, wrote, conns, adapter>>
    /\ UNCHANGED <<pollingVars, update>>

\* The shutdown handler of part_005: os.Exit(0)
Exit ==
    /\ shutdown = "closed"
    /\ shutdown' = "exited"
    /\ UNCHANGED <<details, ctx, cancelled, symbols, FundingRates, wrote, conns, adapter>>
    /\ UNCHANGED <<pollingVars, update>>

\* conn, _, err := websocket.DefaultDialer.Dial(...); if err != nil { return }
\* defer conn.Close(); go func() { ping loop }()
Dial(id) ==
    /\ Running
    /\ id \in DOMAIN conns
    /\ conns[id].pc = "Dial"
    /\ \/ conns' = [conns EXCEPT ![id].pc = "returned"]
       \/ conns' = [conns EXCEPT ![id].pc = "Subscribe", ![id].conn = "open",
                                 ![id].ping = "running"]
    /\ UNCHANGED <<details, ctx, cancelled, symbols, FundingRates, wrote, adapter, shutdown>>
    /\ UNCHANGED <<pollingVars, update>>

\* for _, symbol := range symbols { if err := conn.WriteJSON(subMsg); err != nil { return } }
Subscribe(id) ==
    /\ Running
    /\ id \in DOMAIN conns
    /\ conns[id].pc = "Subscribe"
    /\ \/ conns' = [conns EXCEPT ![id].pc = "returned", ![id].conn = "closed"]
       \/ conns' = [conns EXCEPT ![id].pc = "select"]
    /\ UNCHANGED <<details, ctx, cancelled, symbols, FundingRates, wrote, adapter, shutdown>>
    /\ UNCHANGED <<pollingVars, update>>

\* select { case <-ctx.Done(): return; default: conn.ReadMessage() }
Select(id) ==
    /\ Running
    /\ id \in DOMAIN conns
    /\ conns[id].pc = "select"
    /\ conns' = IF conns[id].ctx \in cancelled
                THEN [conns EXCEPT ![id].pc = "returned", ![id].conn = "closed"]
                ELSE [conns EXCEPT ![id].pc = "ReadMessage"]
    /\ UNCHANGED <<details, ctx, cancelled, symbols, FundingRates, wrote, adapter, shutdown>>
    /\ UNCHANGED <<pollingVars, update>>

\* conn.ReadMessage() returns, and the message is handled.
ReadMessage(id) ==
    /\ Running
    /\ id \in DOMAIN conns
    /\ conns[id].pc = "ReadMessage"
    /\ \E message \in WsMessages(conns[id].symbols) :
          IF message.err # << >>
          THEN /\ conns' = [conns EXCEPT ![id].pc = "returned", ![id].conn = "closed"]
               /\ UNCHANGED <<FundingRates, wrote>>
          ELSE /\ conns' = [conns EXCEPT ![id].pc = "select"]
               /\ IF message.channel = "push.funding.rate"
                     /\ UnwrapMexcSymbol(message.data.Symbol).err = << >>
                  THEN LET unifiedSymbol == UnwrapMexcSymbol(message.data.Symbol).symbol
                       IN  /\ FundingRates' =
                                 [s \in DOMAIN FundingRates \cup {unifiedSymbol} |->
                                     IF s = unifiedSymbol THEN message.data
                                                          ELSE FundingRates[s]]
                           /\ wrote' =
                                 [s \in DOMAIN wrote \cup {unifiedSymbol} |->
                                     IF s = unifiedSymbol THEN conns[id].ctx ELSE wrote[s]]
                  ELSE UNCHANGED <<FundingRates, wrote>>
    /\ UNCHANGED <<details, ctx, cancelled, symbols, adapter, shutdown>>
    /\ UNCHANGED <<pollingVars, update>>

\* The ping goroutine: case <-ctx.Done(): return
PingDone(id) ==
    /\ Running
    /\ id \in DOMAIN conns
    /\ conns[id].ping = "running"
    /\ conns[id].ctx \in cancelled
    /\ conns' = [conns EXCEPT ![id].ping = "stopped"]
    /\ UNCHANGED <<details, ctx, cancelled, symbols, FundingRates, wrote, adapter, shutdown>>
    /\ UNCHANGED <<pollingVars, update>>

\* The ping goroutine: case <-pingTicker.C: conn.WriteJSON fails, return
PingFails(id) ==
    /\ Running
    /\ id \in DOMAIN conns
    /\ conns[id].ping = "running"
    /\ conns' = [conns EXCEPT ![id].ping = "failed"]
    /\ UNCHANGED <<details, ctx, cancelled, symbols, FundingRates, wrote, adapter, shutdown>>
    /\ UNCHANGED <<pollingVars, update>>

\* The lifecycle: the exchange lists up to MaxContracts contracts.
InitMexc ==
    /\ InitMexcAdapter({Contracts(n) : n \in 0..MaxContracts})
    /\ NoUpdate
    /\ tickers = << >>
    /\ pc = "ready"
    /\ engine = Nil
    /\ spreads = << >>
    /\ evaluated = << >>
    /\ binanceFundingRates = << >>
    /\ mexcFundingRates = << >>
    /\ published = << >>
    /\ collected = << >>
    /\ NoCycle
    /\ NoSymbol

NextMexc ==
    \/ InitConnections
    \/ StartWsConnection
    \/ RestartCancel
    \/ RestartNewContext
    \/ Close
    \/ Exit
    \/ \E id \in ConnIds :
          \/ Dial(id)
          \/ Subscribe(id)
          \/ Select(id)
          \/ ReadMessage(id)
          \/ PingDone(id)
          \/ PingFails(id)

SpecMexc == InitMexc /\ [][NextMexc]_vars

\* The Go scheduler runs every runnable goroutine: the steps of the adapter's
\* own goroutines that stay possible are eventually taken.  Whether the
\* exchange sends a message, answers a request or breaks a connection, and
\* whether a restart or a shutdown is asked for, is not up to the scheduler.
FairMexc ==
    /\ WF_vars(StartWsConnection)
    /\ WF_vars(RestartNewContext)
    /\ WF_vars(Exit)
    /\ \A id \in ConnIds :
          /\ WF_vars(Dial(id))
          /\ WF_vars(Subscribe(id))
          /\ WF_vars(Select(id))
          /\ WF_vars(PingDone(id))

SpecMexcFair == SpecMexc /\ FairMexc

\* NewMexcAdapter on a contract list of up to MaxSymbols symbols: the
\* connections startWsConnections starts and their first steps.
InitWs ==
    /\ InitMexcAdapter({Contracts(n) : n \in 0..MaxSymbols})
    /\ NoUpdate
    /\ tickers = << >>
    /\ pc = "ready"
    /\ engine = Nil
    /\ spreads = << >>
    /\ evaluated = << >>
    /\ binanceFundingRates = << >>
    /\ mexcFundingRates = << >>
    /\ published = << >>
    /\ collected = << >>
    /\ NoCycle
    /\ NoSymbol

NextWs ==
    \/ InitConnections
    \/ StartWsConnection
    \/ \E id \in ConnIds :
          \/ Dial(id)
          \/ Subscribe(id)
          \/ Select(id)

SpecWs == InitWs /\ [][NextWs]_vars

----------------------------------------------------------------------------
(* BinanceAdapter.UpdateFundingRates step by step: two fetch goroutines, a  *)
(* WaitGroup, the error checks and the store under a.mu.                    *)

MaxUpdates == 2     \* calls of UpdateFundingRates made by the model

\* What the premium-index request can answer.
PremiumIndexAnswers ==
    { PremiumIndexes,
      << [Symbol |-> ETH \o USDT, LastFundingRate |-> <<"-", "0", ".", "0", "2">>,
          NextFundingTime |-> 0],
         [Symbol |-> SOL \o USDT, LastFundingRate |-> <<"0", ".", "0", "1">>,
          NextFundingTime |-> 0] >> }

\* What the funding-info request can answer.
FundingInfoAnswers ==
    FundingInfos \cup
    { << [Symbol |-> BTC \o USDT, FundingIntervalHours |-> 8],
         [Symbol |-> ETH \o USDT, FundingIntervalHours |-> 4] >> }

\* The error set by a fetch goroutine: request, status, body or unmarshal.
FetchErrors(what) ==
    {<<m, what>> : m \in {"failed to make HTTP request to Binance",
                          "Binance API returned non-OK status",
                          "failed to read Binance response body",
                          "failed to unmarshal Binance"}}

\* Faulty variant: the error of the funding-info fetch is not looked at.
FirstErrorPremiumOnly(errPremium, errInfo) == errPremium

\* if errPremium != nil { return 0, errPremium }; if errInfo != nil { return 0, errInfo }
FirstError(errPremium, errInfo) ==
    IF errPremium # << >> THEN errPremium ELSE errInfo

updateFrame == <<tickers, pc, engine, spreads, evaluated, mexcFundingRates,
                 published, collected, mainVars, symbolVars, mexcVars>>

\* The adapter as NewBinanceAdapter returns it: an empty cache.
InitUpdate ==
    /\ binanceFundingRates = << >>
    /\ NoAdapter
    /\ tickers = << >>
    /\ pc = "ready"
    /\ engine = Nil
    /\ spreads = << >>
    /\ evaluated = << >>
    /\ mexcFundingRates = << >>
    /\ published = << >>
    /\ collected = << >>
    /\ NoCycle
    /\ NoSymbol

\* var wg; var errPremium, errInfo; wg.Add(2); go ...; go ...
UpdateCall ==
    /\ update.pc = "idle"
    /\ update.calls < MaxUpdates
    /\ update' = [pc |-> "Wait", calls |-> update.calls + 1, wg |-> 2,
                  premium |-> "Get", info |-> "Get",
                  errPremium |-> << >>, errInfo |-> << >>,
                  premiumIndexes |-> << >>, fundingInfos |-> << >>,
                  mu |-> update.mu, before |-> binanceFundingRates,
                  returned |-> FALSE, err |-> << >>]
    /\ UNCHANGED <<binanceFundingRates, updateFrame>>

\* The goroutine fetching the premium index, with its deferred wg.Done.
FetchPremiumIndex ==
    /\ update.premium = "Get"
    /\ \/ \E e \in FetchErrors("premium index") :
             update' = [update EXCEPT !.premium = "done", !.errPremium = e,
                                      !.wg = WgDone(update.wg)]
       \/ \E answer \in PremiumIndexAnswers :
             update' = [update EXCEPT !.premium = "done", !.premiumIndexes = answer,
                                      !.wg = WgDone(update.wg)]
    /\ UNCHANGED <<binanceFundingRates, updateFrame>>

\* The goroutine fetching the funding info, with its deferred wg.Done.
FetchFundingInfo ==
    /\ update.info = "Get"
    /\ \/ \E e \in FetchErrors("funding info") :
             update' = [update EXCEPT !.info = "done", !.errInfo = e,
                                      !.wg = WgDone(update.wg)]
       \/ \E answer \in FundingInfoAnswers :
             update' = [update EXCEPT !.info = "done", !.fundingInfos = answer,
                                      !.wg = WgDone(update.wg)]
    /\ UNCHANGED <<binanceFundingRates, updateFrame>>

\* wg.Wait() and the two error checks.
UpdateWait ==
    /\ update.pc = "Wait"
    /\ WaitReturns(update.wg)
    /\ LET err == FirstError(update.errPremium, update.errInfo)
       IN  update' = IF err # << >>
                     THEN [update EXCEPT !.pc = "idle", !.returned = TRUE, !.err = err]
                     ELSE [update EXCEPT !.pc = "Lock"]
    /\ UNCHANGED <<binanceFundingRates, updateFrame>>

\* a.mu.Lock(); defer a.mu.Unlock()
UpdateLock ==
    /\ update.pc = "Lock"
    /\ Unlocked(update.mu)
    /\ update' = [update EXCEPT !.pc = "store", !.mu = "UpdateFundingRates"]
    /\ UNCHANGED <<binanceFundingRates, updateFrame>>

\* The loop over premiumIndexes, the return and the deferred unlock.
UpdateStore ==
    /\ update.pc = "store"
    /\ binanceFundingRates' =
          StoreFundingRates(binanceFundingRates, update.premiumIndexes, update.fundingInfos)
    /\ update' = [update EXCEPT !.pc = "idle", !.mu = "unlocked", !.returned = TRUE]
    /\ UNCHANGED updateFrame

NextUpdate ==
    \/ UpdateCall
    \/ FetchPremiumIndex
    \/ FetchFundingInfo
    \/ UpdateWait
    \/ UpdateLock
    \/ UpdateStore

SpecUpdate == InitUpdate /\ [][NextUpdate]_vars

----------------------------------------------------------------------------
(* Properties of the engine *)

Done == pc \in {"done", "published"}

Quoted(s) == DOMAIN tickers[s]

OrderedPairs(s) == {x \in Quoted(s) \X Quoted(s) : x[1] # x[2]}

Bid(s, e) == tickers[s][e].Bid
Ask(s, e) == tickers[s][e].Ask

\* Numerator and denominator of x - y and of x + y for finite fractions.
DiffN(x, y) == x.n * y.d - y.n * x.d
SumN(x, y) == x.n * y.d + y.n * x.d
CommonD(x, y) == x.d * y.d

\* v is the finite fraction n/d (d > 0).
IsFrac(v, n, d) == v.d > 0 /\ v.n * d = n * v.d

Positive(v) == v.n > 0 /\ v.d > 0

Has(s, A, B) ==
    \E k \in DOMAIN spreads :
        /\ spreads[k].UnifiedSymbol = s
        /\ spreads[k].ExchangeShort = A
        /\ spreads[k].ExchangeLong = B

OfSymbol(seq, s) == SelectSeq(seq, LAMBDA r : r.UnifiedSymbol = s)

EvaluatedOf(s) == SelectSeq(evaluated, LAMBDA e : e.symbol = s)

\* C1 as stated: for every price table, symbol S and distinct exchanges A, B
\* quoting S, the opportunity (S, short A, long B) is in the result iff
\* bid(A) > ask(B).
C1_SymmetryAnyTable ==
    Done => \A s \in DOMAIN tickers : \A x \in OrderedPairs(s) :
                Has(s, x[1], x[2]) <=> DiffN(Bid(s, x[1]), Ask(s, x[2])) > 0

\* C1 amended: the opportunity (S, short A, long B) is in the result iff
\* bid(A) > ask(B) and bid(A) + ask(B) > 0; the reverse opportunity is decided
\* by the same test on bid(B) and ask(A) alone.
C1_Symmetry ==
    Done => \A s \in DOMAIN tickers : \A x \in OrderedPairs(s) :
                Has(s, x[1], x[2]) <=>
                    /\ DiffN(Bid(s, x[1]), Ask(s, x[2])) > 0
                    /\ SumN(Bid(s, x[1]), Ask(s, x[2])) > 0

\* A symbol with one direction emitted and the other not, and a second symbol
\* with both directions emitted.
C1_Witness ==
    /\ Done
    /\ \E s \in DOMAIN tickers : \E x \in OrderedPairs(s) :
          Has(s, x[1], x[2]) /\ ~Has(s, x[2], x[1])
    /\ \E s \in DOMAIN tickers : \E x \in OrderedPairs(s) :
          Has(s, x[1], x[2]) /\ Has(s, x[2], x[1])

\* C2: an evaluated ordered pair (A, B) is emitted iff its entry spread is > 0,
\* as the record with short venue A and long venue B; every record of the
\* result has entrySpread > 0 and openDiff > 0.
C2_Inclusion ==
    Done =>
        /\ \A k \in DOMAIN evaluated :
              LET e == evaluated[k]
              IN  /\ Positive(e.spread.EntrySpread) <=> Has(e.symbol, e.A, e.B)
                  /\ Positive(e.spread.EntrySpread) =>
                        \E j \in DOMAIN spreads :
                            /\ spreads[j] = e.spread
                            /\ spreads[j].ExchangeShort = e.A
                            /\ spreads[j].ExchangeLong = e.B
        /\ \A j \in DOMAIN spreads :
              /\ Positive(spreads[j].EntrySpread)
              /\ Positive(spreads[j].OpenDiff)
              /\ \E k \in DOMAIN evaluated : evaluated[k].spread = spreads[j]

\* A call that evaluated a pair with zero entry spread and one with a positive one.
C2_Witness ==
    /\ Done
    /\ \E k \in DOMAIN evaluated : Positive(evaluated[k].spread.EntrySpread)
    /\ \E k \in DOMAIN evaluated :
          /\ evaluated[k].spread.EntrySpread = Zero
          /\ ~Has(evaluated[k].symbol, evaluated[k].A, evaluated[k].B)

\* C3: for a symbol quoted by N >= 2 exchanges exactly N*(N-1) ordered pairs
\* (A, B) are evaluated, each ordered pair of distinct exchanges once, never a
\* pair with A = B, and at most N*(N-1) opportunities are emitted for it.
C3_PairCount ==
    Done => \A s \in DOMAIN tickers :
        LET N == Cardinality(Quoted(s))
            ev == EvaluatedOf(s)
        IN  N >= 2 =>
              /\ Len(ev) = N * (N - 1)
              /\ \A k \in DOMAIN ev : ev[k].A # ev[k].B
              /\ \A x \in OrderedPairs(s) :
                    Cardinality({k \in DOMAIN ev : ev[k].A = x[1] /\ ev[k].B = x[2]}) = 1
              /\ Len(OfSymbol(spreads, s)) <= N * (N - 1)

\* A symbol quoted by five exchanges: twenty pairs evaluated.
C3_Witness ==
    /\ Done
    /\ \E s \in DOMAIN tickers :
          /\ Cardinality(Quoted(s)) = 5
          /\ Len(EvaluatedOf(s)) = 20
          /\ Len(OfSymbol(spreads, s)) > 0

\* C4: a symbol whose exchange map has one entry or none contributes no
\* opportunity (and no evaluated pair), whatever its quote and whatever the
\* other symbols of the table.
C4_SingleExchange ==
    Done => \A s \in DOMAIN tickers :
        Cardinality(Quoted(s)) < 2 =>
            /\ Len(OfSymbol(spreads, s)) = 0
            /\ Len(EvaluatedOf(s)) = 0

\* A symbol quoted by one exchange with a crossed book (bid > ask > 0), next
\* to a symbol that yields an opportunity.
C4_Witness ==
    /\ Done
    /\ Len(spreads) > 0
    /\ \E s \in DOMAIN tickers : \E e \in Quoted(s) :
          /\ Quoted(s) = {e}
          /\ DiffN(Bid(s, e), Ask(s, e)) > 0
          /\ Ask(s, e).n > 0

\* C5: the returned sequence is non-increasing in entrySpread.
C5_SortOrder ==
    Done => \A i \in DOMAIN spreads : \A j \in DOMAIN spreads :
        i < j => spreads[i].EntrySpread.n * spreads[j].EntrySpread.d
                    >= spreads[j].EntrySpread.n * spreads[i].EntrySpread.d

\* Three or more opportunities of two symbols, appended in an order that the
\* sort had to change.
C5_Witness ==
    /\ Done
    /\ Len(spreads) >= 3
    /\ \E i \in DOMAIN spreads : spreads[i].UnifiedSymbol # spreads[1].UnifiedSymbol
    /\ spreads[1].EntrySpread # spreads[Len(spreads)].EntrySpread
    /\ Emitted(evaluated) # spreads

\* x >= t for a finite t; x may be +Inf or -Inf.
AtLeast(x, t) == IF x.d = 0 THEN x.n > 0 ELSE x.n * t.d >= t.n * x.d

Rows(frame) == {frame[k] : k \in DOMAIN frame}

JoinedPairs == UNION { {<<s, x[1], x[2]>> : x \in OrderedPairs(s)} : s \in DOMAIN tickers }

C7_EntryFormulaUnguarded ==
    Done => \A k \in DOMAIN evaluated :
        LET e == evaluated[k]
            b == Bid(e.symbol, e.A)
            a == Ask(e.symbol, e.B)
            es == e.spread.EntrySpread
        IN  /\ IsFrac(e.spread.OpenDiff, DiffN(b, a), CommonD(b, a))
            /\ DiffN(b, a) <= 0 => es = Zero
            /\ DiffN(b, a) > 0 => es.n * SumN(b, a) = 200 * DiffN(b, a) * es.d

\* C7 amended: openDiff = bid(A) - ask(B); entrySpread = 0 when openDiff <= 0
\* or bid(A) + ask(B) <= 0, otherwise entrySpread = openDiff / ((bid(A) +
\* ask(B)) / 2) * 100; every emitted record carries the values of its own pair;
\* the example table yields exactly one opportunity, A short / B long, 120/401 %.
C7_EntryFormula ==
    Done =>
        /\ \A k \in DOMAIN evaluated :
              LET e == evaluated[k]
                  b == Bid(e.symbol, e.A)
                  a == Ask(e.symbol, e.B)
                  es == e.spread.EntrySpread
              IN  /\ IsFrac(e.spread.OpenDiff, DiffN(b, a), CommonD(b, a))
                  /\ (DiffN(b, a) <= 0 \/ SumN(b, a) <= 0) => es = Zero
                  /\ (DiffN(b, a) > 0 /\ SumN(b, a) > 0) =>
                        IsFrac(es, 200 * DiffN(b, a), SumN(b, a))
        /\ \A j \in DOMAIN spreads :
              LET r == spreads[j]
                  b == Bid(r.UnifiedSymbol, r.ExchangeShort)
                  a == Ask(r.UnifiedSymbol, r.ExchangeLong)
              IN  /\ IsFrac(r.OpenDiff, DiffN(b, a), CommonD(b, a))
                  /\ IsFrac(r.EntrySpread, 200 * DiffN(b, a), SumN(b, a))
        /\ tickers = ExampleTable =>
              /\ Len(spreads) = 1
              /\ spreads[1].ExchangeShort = "A"
              /\ spreads[1].ExchangeLong = "B"
              /\ IsFrac(spreads[1].OpenDiff, 3, 10)
              /\ IsFrac(spreads[1].EntrySpread, 120, 401)

\* The example scenario has been computed.
C7_Witness ==
    /\ Done
    /\ tickers = ExampleTable
    /\ Len(spreads) = 1

\* C8: every emitted opportunity (short A, long B) has exitDiff = bid(B) -
\* ask(A) and exitSpread = exitDiff / ((bid(B) + ask(A)) / 2) * 100 when that
\* average is positive, whatever the sign of exitDiff, and exitSpread = 0 when
\* the average is not positive.
C8_ExitFormula ==
    Done => \A j \in DOMAIN spreads :
        LET r == spreads[j]
            b == Bid(r.UnifiedSymbol, r.ExchangeLong)
            a == Ask(r.UnifiedSymbol, r.ExchangeShort)
        IN  /\ IsFrac(r.ExitDiff, DiffN(b, a), CommonD(b, a))
            /\ SumN(b, a) > 0 => IsFrac(r.ExitSpread, 200 * DiffN(b, a), SumN(b, a))
            /\ SumN(b, a) <= 0 => r.ExitSpread = Zero

\* A result with a negative exit spread and an exit spread that is 0 because
\* the exit average is not positive although exitDiff is not 0.
C8_Witness ==
    /\ Done
    /\ \E j \in DOMAIN spreads : spreads[j].ExitSpread.n < 0
    /\ \E j \in DOMAIN spreads :
          /\ spreads[j].ExitSpread = Zero
          /\ SumN(Bid(spreads[j].UnifiedSymbol, spreads[j].ExchangeLong),
                  Ask(spreads[j].UnifiedSymbol, spreads[j].ExchangeShort)) <= 0
          /\ spreads[j].ExitDiff # Zero

\* C9: no division by an average price <= 0 is executed; the entry spread is
\* 0 whenever (bid(A) + ask(B)) / 2 <= 0 and the exit spread is 0 whenever
\* (bid(B) + ask(A)) / 2 <= 0; every computed value is a finite number.
C9_Degenerate ==
    Done => \A k \in DOMAIN evaluated :
        LET e == evaluated[k]
        IN  /\ \A i \in DOMAIN e.divisors : Positive(e.divisors[i])
            /\ SumN(Bid(e.symbol, e.A), Ask(e.symbol, e.B)) <= 0
                  => e.spread.EntrySpread = Zero
            /\ SumN(Bid(e.symbol, e.B), Ask(e.symbol, e.A)) <= 0
                  => e.spread.ExitSpread = Zero
            /\ e.spread.EntrySpread.d > 0
            /\ e.spread.ExitSpread.d > 0
            /\ e.spread.OpenDiff.d > 0
            /\ e.spread.ExitDiff.d > 0

\* A call on a table with a negative and a zero price that evaluated a pair
\* with openDiff > 0 over a zero average and a pair over a negative average.
C9_Witness ==
    /\ Done
    /\ \E s \in DOMAIN tickers : \E e \in Quoted(s) : Bid(s, e).n < 0
    /\ \E s \in DOMAIN tickers : \E e \in Quoted(s) : Ask(s, e).n = 0
    /\ \E k \in DOMAIN evaluated :
          /\ Positive(evaluated[k].spread.OpenDiff)
          /\ SumN(Bid(evaluated[k].symbol, evaluated[k].A),
                  Ask(evaluated[k].symbol, evaluated[k].B)) = 0
    /\ \E k \in DOMAIN evaluated :
          /\ Positive(evaluated[k].spread.OpenDiff)
          /\ SumN(Bid(evaluated[k].symbol, evaluated[k].A),
                  Ask(evaluated[k].symbol, evaluated[k].B)) < 0

\* The decimal numerals among the funding-rate strings.
NumeralStrings == { <<"0", ".", "0", "1">>, <<"-", "0", ".", "0", "2">> }

\* The funding lookup has a record for symbol s on exchange e with a positive
\* interval.
UsableFunding(e, s) ==
    \/ /\ e = "Binance"
       /\ s \in DOMAIN binanceFundingRates
       /\ binanceFundingRates[s].LastFundingRate \in NumeralStrings
       /\ binanceFundingRates[s].FundingIntervalHours > 0
    \/ /\ e = "Mexc"
       /\ s \in DOMAIN mexcFundingRates
       /\ mexcFundingRates[s].CollectCycle > 0

BothUsable(r) ==
    /\ UsableFunding(r.ExchangeShort, r.UnifiedSymbol)
    /\ UsableFunding(r.ExchangeLong, r.UnifiedSymbol)

\* C10: an emitted opportunity (short A, long B) carries fundingSpread8h iff
\* the lookup has a record for the symbol on A and on B, both with
\* intervalHours > 0; otherwise the field is omitted from the serialized
\* record, never present with value 0 or null.
C10_FundingPresence ==
    pc = "published" => \A k \in DOMAIN published :
        /\ ("funding_spread_8h" \in DOMAIN published[k]) <=> BothUsable(spreads[k])
        /\ "funding_spread_8h" \in DOMAIN published[k] =>
              /\ published[k]["funding_spread_8h"] # JsonNull
              /\ published[k]["funding_spread_8h"] = spreads[k].FundingSpread8h
              /\ spreads[k].FundingSpread8h # Nil

\* The same statement for the records of the engine of part_006 alone.
FundingPresenceWithOmitEmpty ==
    (pc = "published" /\ engine = "part_006") => \A k \in DOMAIN published :
        /\ ("funding_spread_8h" \in DOMAIN published[k]) <=> BothUsable(spreads[k])
        /\ "funding_spread_8h" \in DOMAIN published[k] =>
              /\ published[k]["funding_spread_8h"] # JsonNull
              /\ published[k]["funding_spread_8h"] = spreads[k].FundingSpread8h
              /\ spreads[k].FundingSpread8h # Nil

\* Records published by the engine of part_006: one with a zero carry present,
\* one without the field.
FundingPresenceWitness ==
    /\ pc = "published"
    /\ engine = "part_006"
    /\ \E k \in DOMAIN published :
          /\ "funding_spread_8h" \in DOMAIN published[k]
          /\ published[k]["funding_spread_8h"] = Zero
    /\ \E k \in DOMAIN published : "funding_spread_8h" \notin DOMAIN published[k]

\* The funding rate and the interval in hours that the lookup holds for symbol
\* s on exchange e, read off the maps.
RateOf(e, s) ==
    IF e = "Binance"
    THEN IF binanceFundingRates[s].LastFundingRate = <<"0", ".", "0", "1">>
         THEN [n |-> 1, d |-> 100]
         ELSE [n |-> 0 - 2, d |-> 100]
    ELSE mexcFundingRates[s].FundingRate

IntervalHoursOf(e, s) ==
    IF e = "Binance"
    THEN binanceFundingRates[s].FundingIntervalHours
    ELSE mexcFundingRates[s].CollectCycle

\* C11: when fundingSpread8h is present on an opportunity with short venue A
\* and long venue B, it equals
\* (rate(A) * 8 / intervalHours(A) - rate(B) * 8 / intervalHours(B)) * 100.
C11_FundingFormula ==
    Done => \A k \in DOMAIN spreads :
        spreads[k].FundingSpread8h # Nil =>
            /\ BothUsable(spreads[k])
            /\ LET s == spreads[k].UnifiedSymbol
                   rA == RateOf(spreads[k].ExchangeShort, s)
                   rB == RateOf(spreads[k].ExchangeLong, s)
                   iA == IntervalHoursOf(spreads[k].ExchangeShort, s)
                   iB == IntervalHoursOf(spreads[k].ExchangeLong, s)
               IN  IsFrac(spreads[k].FundingSpread8h,
                          800 * (rA.n * rB.d * iB - rB.n * rA.d * iA),
                          rA.d * iA * rB.d * iB)

\* An opportunity short on Mexc (4-hour interval) and long on Binance (8-hour
\* interval) with equal rates: the carry is 0.01 * 2 * 100 - 0.01 * 100 = 1.
C11_Witness ==
    /\ Done
    /\ \E k \in DOMAIN spreads :
          /\ spreads[k].ExchangeShort = "Mexc"
          /\ spreads[k].ExchangeLong = "Binance"
          /\ BothUsable(spreads[k])
          /\ IntervalHoursOf("Mexc", spreads[k].UnifiedSymbol) = 4
          /\ IntervalHoursOf("Binance", spreads[k].UnifiedSymbol) = 8
          /\ RateOf("Mexc", spreads[k].UnifiedSymbol) = RateOf("Binance", spreads[k].UnifiedSymbol)
          /\ spreads[k].FundingSpread8h = [n |-> 1, d |-> 1]

\* The (symbol, short, long) triples of the loop bodies a call executed.
PairsOf(evals) == {<<evals[k].symbol, evals[k].A, evals[k].B>> : k \in DOMAIN evals}

----------------------------------------------------------------------------
(* Properties of the polling loop *)

AllFinished(gs) == \A g \in Goroutines : g \in DOMAIN gs /\ gs[g].pc = "done"

\* C13: in every cycle CalculateSpreads is invoked only after the Binance
\* ticker goroutine, the Mexc ticker goroutine and the Binance funding-rate
\* goroutine of the cycle have all finished, on the table they merged; from
\* the return of wg.Wait on, nothing writes to the table of the cycle.
C13_JoinBarrier ==
    [][/\ pc' = "CalculateSpreads" => AllFinished(goroutines')
       /\ pc = "CalculateSpreads" /\ pc' = "tick" =>
             /\ AllFinished(goroutines)
             /\ wg = 0
             /\ tickers' = allTickers
       /\ pc \in {"CalculateSpreads", "tick"} /\ pc' # "Wait" =>
             allTickers' = allTickers]_vars

\* A call made after all three goroutines did their work: both exchanges
\* merged a ticker of the same symbol and the funding cache was filled.
C13_Witness ==
    /\ pc = "tick"
    /\ cycle >= 1
    /\ AllFinished(goroutines)
    /\ \E s \in DOMAIN tickers : DOMAIN tickers[s] = {"Binance", "Mexc"}
    /\ binanceFundingRates # << >>
    /\ Len(spreads) > 0

InSection(g) == goroutines[g].pc \in {"check", "make", "insert", "Unlock"}

\* The elements of its book whose insert goroutine g has completed.
Inserted(g) ==
    IF goroutines[g].pc = "done" THEN 1..Len(fetched[g].data)
    ELSE IF goroutines[g].pc = "Unlock" THEN 1..goroutines[g].i
    ELSE 1..(goroutines[g].i - 1)

\* Exchange e fetched a book this cycle in which element k converts.
Yields(e, k) ==
    /\ e \in DOMAIN fetched
    /\ k \in DOMAIN fetched[e].data
    /\ ToTickerBidAsk(e, fetched[e].data[k]).err = << >>

\* Element k is the last of those in K that exchange e converts to its symbol.
LastYield(e, k, K) ==
    /\ Yields(e, k)
    /\ \A j \in K :
          (j > k /\ Yields(e, j)) =>
              ToTickerBidAsk(e, fetched[e].data[j]).ticker.UnifiedSymbol
                  # ToTickerBidAsk(e, fetched[e].data[k]).ticker.UnifiedSymbol

YieldedSymbols(e) ==
    {ToTickerBidAsk(e, fetched[e].data[k]).ticker.UnifiedSymbol :
        k \in {j \in DOMAIN fetched[e].data : Yields(e, j)}}

\* C14: under every interleaving of the two ticker goroutines at most one is
\* inside the check-create-insert section, and it holds the mutex; no inner
\* map is created for a symbol that has one; a ticker once inserted by an
\* exchange stays in the table as inserted until the same exchange inserts
\* another one for the symbol; after the join the table holds,
\* for every symbol, exactly the exchanges that yielded a convertible ticker.
C14_SerializedMerges ==
    /\ Cardinality({g \in DOMAIN goroutines : InSection(g)}) <= 1
    /\ \A g \in DOMAIN goroutines :
          /\ InSection(g) => mu = g
          /\ goroutines[g].pc = "make" =>
                goroutines[g].genericTicker.UnifiedSymbol \notin DOMAIN allTickers
    /\ \A g \in TickerGoroutines \cap DOMAIN fetched : \A k \in Inserted(g) :
          LastYield(g, k, Inserted(g)) =>
              LET genericTicker == ToTickerBidAsk(g, fetched[g].data[k]).ticker
              IN  /\ genericTicker.UnifiedSymbol \in DOMAIN allTickers
                  /\ g \in DOMAIN allTickers[genericTicker.UnifiedSymbol]
                  /\ allTickers[genericTicker.UnifiedSymbol][g] = genericTicker
    /\ AllFinished(goroutines) =>
          /\ DOMAIN allTickers = UNION {YieldedSymbols(e) : e \in DOMAIN fetched}
          /\ \A s \in DOMAIN allTickers :
                DOMAIN allTickers[s] = {e \in DOMAIN fetched : s \in YieldedSymbols(e)}

\* Contention on one symbol: Binance holds the mutex and is about to create
\* the inner map of the symbol whose ticker Mexc is waiting to merge.
C14_Witness ==
    /\ pc = "Wait"
    /\ mu = "Binance"
    /\ goroutines["Binance"].pc = "make"
    /\ goroutines["Mexc"].pc = "Lock"
    /\ goroutines["Mexc"].genericTicker.UnifiedSymbol
          = goroutines["Binance"].genericTicker.UnifiedSymbol

Failed(e) == e \in DOMAIN fetched /\ fetched[e].err # << >>

Contributes(t, e) == \E s \in DOMAIN t : e \in DOMAIN t[s]

\* C15: when GetTickers returns an error for an exchange in a cycle, the
\* process does not exit, the goroutine of the exchange finishes and releases
\* the WaitGroup, the exchange contributes no entry to the table of the cycle
\* nor to the table passed to CalculateSpreads, the tickers of the other
\* exchange are merged in full and passed to the call, and wg.Wait can
\* return once the goroutines are done.
C15_FetchFailureIsolation ==
    /\ pc # "exited"
    /\ wg = Cardinality({g \in DOMAIN goroutines : goroutines[g].pc # "done"})
    /\ \A e \in TickerGoroutines :
          Failed(e) =>
              /\ goroutines[e].pc = "done"
              /\ ~Contributes(allTickers, e)
              /\ pc = "tick" => ~Contributes(tickers, e)
              /\ \E line \in log : line.level = "ERROR" /\ line.error = fetched[e].err
    /\ (pc = "Wait" /\ AllFinished(goroutines)) => WaitReturns(wg)
    /\ (pc = "tick" /\ cycle > 0) =>
          \A e \in TickerGoroutines : \A k \in DOMAIN fetched[e].data :
                LastYield(e, k, DOMAIN fetched[e].data) =>
                    LET genericTicker == ToTickerBidAsk(e, fetched[e].data[k]).ticker
                    IN  tickers[genericTicker.UnifiedSymbol][e] = genericTicker

\* Binance failed in the first cycle and the call was made on the tickers of
\* Mexc alone; the second cycle ran, Mexc failed in it and the call was made
\* on the ticker of Binance alone.
C15_Witness ==
    /\ pc = "tick"
    /\ cycle >= 2
    /\ Contributes(earlier, "Mexc") /\ ~Contributes(earlier, "Binance")
    /\ Failed("Mexc") /\ ~Failed("Binance")
    /\ Contributes(tickers, "Binance") /\ ~Contributes(tickers, "Mexc")

\* The conversion of element k of the book of g has been attempted.
Converted(g, k) ==
    \/ goroutines[g].pc = "done"
    \/ k < goroutines[g].i
    \/ k = goroutines[g].i /\ goroutines[g].pc # "ToTickerBidAsk"

\* The raw symbol carries the quote suffix of its exchange.
QuoteSupported(g, symbol) ==
    LET suffix == IF g = "Binance" THEN <<"U", "S", "D", "T">>
                                   ELSE <<"_", "U", "S", "D", "T">>
    IN  /\ Len(symbol) >= Len(suffix)
        /\ \A j \in 1..Len(suffix) : symbol[Len(symbol) - Len(suffix) + j] = suffix[j]

\* A Binance price string that is no decimal numeral.
Unparsable(g, dto) ==
    /\ g = "Binance"
    /\ \/ dto.BidPrice \notin {<<"1">>, <<"2">>}
       \/ dto.AskPrice \notin {<<"1">>, <<"2">>}

Warnings(symbol) == {line \in log : line.level = "WARN" /\ line.symbol = symbol}

\* C16: a raw ticker whose symbol has an unsupported quote currency is dropped
\* and no warning names it; a raw ticker with a supported quote whose bid or
\* ask does not parse is dropped and a warning naming its symbol is logged;
\* warnings are logged for nothing else; in both cases the merge goes on: a
\* goroutine that has finished its book has merged every convertible ticker.
C16_ConversionFailure ==
    \A g \in TickerGoroutines \cap DOMAIN fetched : \A k \in DOMAIN fetched[g].data :
        LET dto == fetched[g].data[k]
            unified == SubSeq(dto.Symbol, 1, Len(dto.Symbol) - (IF g = "Binance" THEN 4 ELSE 5))
                          \o <<"/", "U", "S", "D", "T", ":", "P", "E", "R", "P">>
            failing == ~QuoteSupported(g, dto.Symbol) \/ Unparsable(g, dto)
        IN  /\ ~QuoteSupported(g, dto.Symbol) => Warnings(dto.Symbol) = {}
            /\ (QuoteSupported(g, dto.Symbol) /\ Unparsable(g, dto) /\ Converted(g, k))
                   => Warnings(dto.Symbol) # {}
            /\ ~Unparsable(g, dto) => Warnings(dto.Symbol) = {}
            /\ (failing /\ QuoteSupported(g, dto.Symbol)) =>
                   (unified \in DOMAIN allTickers => g \notin DOMAIN allTickers[unified])
            /\ (~failing /\ goroutines[g].pc = "done") =>
                   /\ unified \in DOMAIN allTickers
                   /\ g \in DOMAIN allTickers[unified]
                   /\ allTickers[unified][g].Symbol = dto.Symbol

\* Binance has gone through a book with a non-USDT symbol, an unparsable bid
\* and an unparsable ask before its last, good ticker: two warnings, one
\* ticker merged; Mexc has skipped a non-USDT symbol and merged two tickers.
C16_Witness ==
    /\ AllFinished(goroutines)
    /\ ~Failed("Binance") /\ ~Failed("Mexc")
    /\ Cardinality({line \in log : line.level = "WARN"}) = 2
    /\ Cardinality({s \in DOMAIN allTickers : "Binance" \in DOMAIN allTickers[s]}) = 1
    /\ Cardinality({s \in DOMAIN allTickers : "Mexc" \in DOMAIN allTickers[s]}) = 2

----------------------------------------------------------------------------
(* Properties of the symbol conversions *)

\* The strings conversion fn has been called on, and what it returned.
Called(fn) == {c[2] : c \in {x \in DOMAIN symbolRet : x[1] = fn}}

Ret(fn, str) == symbolRet[<<fn, str>>]

\* The base of an exchange symbol with a supported quote.
BaseOf(g, symbol) ==
    [k \in 1..(Len(symbol) - (IF g = "Binance" THEN 4 ELSE 5)) |-> symbol[k]]

UnifiedOf(base) == base \o <<"/", "U", "S", "D", "T", ":", "P", "E", "R", "P">>

UnwrapOf(g) == IF g = "Binance" THEN "UnwrapBinanceSymbol" ELSE "UnwrapMexcSymbol"

\* C17: UnwrapBinanceSymbol(b + "USDT") and UnwrapMexcSymbol(b + "_USDT")
\* succeed with the same unified symbol b + "/USDT:PERP"; UnwrapBinanceSymbol
\* fails, with ErrUnsupportedQuoteCurrency, exactly on the strings that do not
\* end in "USDT" and UnwrapMexcSymbol exactly on those that do not end in
\* "_USDT"; each unwrap maps distinct supported symbols to distinct unified
\* symbols.
C17_SymbolIdentity ==
    /\ \A g \in MainExchanges : \A s \in Called(UnwrapOf(g)) :
          IF QuoteSupported(g, s)
          THEN /\ Ret(UnwrapOf(g), s).err = << >>
               /\ Ret(UnwrapOf(g), s).symbol = UnifiedOf(BaseOf(g, s))
          ELSE Ret(UnwrapOf(g), s).err = <<"unsupported quote currency">>
    /\ \A s1 \in Called("UnwrapBinanceSymbol") : \A s2 \in Called("UnwrapMexcSymbol") :
          (/\ QuoteSupported("Binance", s1)
           /\ QuoteSupported("Mexc", s2)
           /\ BaseOf("Binance", s1) = BaseOf("Mexc", s2))
              => Ret("UnwrapBinanceSymbol", s1) = Ret("UnwrapMexcSymbol", s2)
    /\ \A g \in MainExchanges : \A s1 \in Called(UnwrapOf(g)) : \A s2 \in Called(UnwrapOf(g)) :
          (QuoteSupported(g, s1) /\ QuoteSupported(g, s2) /\ s1 # s2)
              => Ret(UnwrapOf(g), s1).symbol # Ret(UnwrapOf(g), s2).symbol

\* "BUSDT" unwrapped by Binance and "B_USDT" unwrapped by Mexc and by Binance:
\* the first two returns agree, the third is another unified symbol.
C17_Witness ==
    /\ <<"UnwrapBinanceSymbol", <<"B", "U", "S", "D", "T">>>> \in DOMAIN symbolRet
    /\ <<"UnwrapMexcSymbol", <<"B", "_", "U", "S", "D", "T">>>> \in DOMAIN symbolRet
    /\ <<"UnwrapBinanceSymbol", <<"B", "_", "U", "S", "D", "T">>>> \in DOMAIN symbolRet
    /\ Ret("UnwrapBinanceSymbol", <<"B", "U", "S", "D", "T">>).symbol
          = <<"B", "/", "U", "S", "D", "T", ":", "P", "E", "R", "P">>
    /\ Ret("UnwrapBinanceSymbol", <<"B", "_", "U", "S", "D", "T">>).err = << >>

WrapOf(g) == IF g = "Binance" THEN "WrapBinanceSymbol" ELSE "WrapMexcSymbol"

\* str has the form BASE/QUOTE:PERP: one "/", and ":PERP" at the end of the
\* part after it.
WellFormed(str) ==
    \E k \in DOMAIN str :
        /\ str[k] = "/"
        /\ \A j \in DOMAIN str : str[j] = "/" => j = k
        /\ Len(str) - k >= 5
        /\ \A j \in 1..5 : str[Len(str) - 5 + j] = <<":", "P", "E", "R", "P">>[j]

\* str is a well-formed unified symbol with the quote USDT.
WellFormedUSDT(str) ==
    /\ WellFormed(str)
    /\ Len(str) >= 10
    /\ \A j \in 1..10 :
          str[Len(str) - 10 + j] = <<"/", "U", "S", "D", "T", ":", "P", "E", "R", "P">>[j]

\* An exchange symbol holds none of the separators of the unified form.
IsExchangeSymbol(str) == \A k \in DOMAIN str : str[k] \notin {"/", ":"}

\* wrap(unwrap(s)) == s for the supported exchange symbols s unwrapped so far.
WrapUnwrap ==
    \A g \in MainExchanges : \A s \in Called(UnwrapOf(g)) :
        (/\ IsExchangeSymbol(s)
         /\ QuoteSupported(g, s)
         /\ Ret(UnwrapOf(g), s).symbol \in Called(WrapOf(g)))
            => Ret(WrapOf(g), Ret(UnwrapOf(g), s).symbol) = [symbol |-> s, err |-> << >>]

\* wrap fails with InvalidUnifiedSymbolFormat exactly off the form BASE/QUOTE:PERP.
WrapFails ==
    \A g \in MainExchanges : \A str \in Called(WrapOf(g)) :
        IF WellFormed(str)
        THEN Ret(WrapOf(g), str).err = << >>
        ELSE Ret(WrapOf(g), str) = [symbol |-> << >>, err |-> <<"invalid unified symbol format">>]

\* wrap(unwrap(wrap(S))) == wrap(S) for the unified symbols S wrapped so far
\* that satisfy Form: the unwrap of wrap(S) succeeds and wraps to wrap(S).
WrapUnwrapWrap(Form(_)) ==
    \A g \in MainExchanges : \A str \in Called(WrapOf(g)) :
        (Form(str) /\ Ret(WrapOf(g), str).symbol \in Called(UnwrapOf(g))) =>
            LET wrapped == Ret(WrapOf(g), str).symbol
                unwrapped == Ret(UnwrapOf(g), wrapped)
            IN  /\ unwrapped.err = << >>
                /\ unwrapped.symbol \in Called(WrapOf(g))
                      => Ret(WrapOf(g), unwrapped.symbol) = [symbol |-> wrapped, err |-> << >>]

----------------------------------------------------------------------------
(* Properties of the polling loop, continued *)

\* The record that exchange e's fetch of the current cycle produced for
\* unified symbol s, if any: t is such a record.
ProducedThisCycle(e, s, t) ==
    /\ e \in DOMAIN fetched
    /\ fetched[e].err = << >>
    /\ \E k \in DOMAIN fetched[e].data :
          /\ fetched[e].data[k].Symbol = t.Symbol
          /\ t.UnifiedSymbol = s
          /\ IF e = "Binance"
             THEN /\ fetched[e].data[k].BidPrice = <<"2">> /\ t.Bid = [n |-> 2, d |-> 1]
                  /\ fetched[e].data[k].AskPrice = <<"2">> /\ t.Ask = [n |-> 2, d |-> 1]
             ELSE /\ fetched[e].data[k].Bid1 = t.Bid
                  /\ fetched[e].data[k].Ask1 = t.Ask

\* C20: the table of a cycle, and the table passed to CalculateSpreads in it,
\* hold only ticker records produced by the fetches of that cycle; a new
\* cycle starts from an empty table.
C20_FreshTable ==
    /\ \A s \in DOMAIN allTickers : \A e \in DOMAIN allTickers[s] :
          ProducedThisCycle(e, s, allTickers[s][e])
    /\ (pc = "tick" /\ cycle > 0) =>
          \A s \in DOMAIN tickers : \A e \in DOMAIN tickers[s] :
              ProducedThisCycle(e, s, tickers[s][e])
    /\ (pc = "Wait" /\ fetched = << >>) => allTickers = << >>

\* The first cycle passed a table with tickers of Binance and of Mexc (bid 1);
\* in the second Binance failed, and the table passed holds the new ticker of
\* Mexc (bid 3) and nothing of Binance.
C20_Witness ==
    /\ pc = "tick"
    /\ cycle >= 2
    /\ Contributes(earlier, "Binance")
    /\ \E s \in DOMAIN earlier :
          /\ "Mexc" \in DOMAIN earlier[s]
          /\ earlier[s]["Mexc"].Bid = [n |-> 1, d |-> 1]
          /\ s \in DOMAIN tickers
          /\ "Mexc" \in DOMAIN tickers[s]
          /\ tickers[s]["Mexc"].Bid = [n |-> 3, d |-> 1]
    /\ Failed("Binance")
    /\ ~Contributes(tickers, "Binance")

\* C19: in every polling cycle CalculateSpreads is eventually invoked and the
\* cycle completes, also when a ticker fetch or the funding-rate fetch of the
\* cycle never returns: main does not wait at wg.Wait forever.
C19_CycleLiveness ==
    (pc = "Wait") ~> (pc = "tick")

----------------------------------------------------------------------------
(* Properties of the merge of duplicate tickers *)

\* The elements of the book of exchange e that convert to unified symbol s.
YieldsOf(e, s) ==
    {k \in DOMAIN fetched[e].data :
        /\ Yields(e, k)
        /\ ToTickerBidAsk(e, fetched[e].data[k]).ticker.UnifiedSymbol = s}

\* The conversion of the last element of the book of e that converts to s.
LastTicker(e, s) ==
    LET last == CHOOSE k \in YieldsOf(e, s) : \A j \in YieldsOf(e, s) : j <= k
    IN  ToTickerBidAsk(e, fetched[e].data[last]).ticker

\* C21: when the goroutines of a cycle have finished, the table holds for
\* every exchange and every symbol its book converts to, also one that
\* several elements of the book convert to, the record converted from the
\* last such element in list order, and nothing of an earlier one; the table
\* passed to CalculateSpreads is that table; the entries of the other
\* exchange for the symbol are the last ones of its own book.
C21_LastWriteWins ==
    /\ AllFinished(goroutines) =>
          \A e \in TickerGoroutines : \A s \in YieldedSymbols(e) :
              /\ s \in DOMAIN allTickers
              /\ e \in DOMAIN allTickers[s]
              /\ allTickers[s][e] = LastTicker(e, s)
    /\ (pc = "tick" /\ cycle > 0) =>
          \A e \in TickerGoroutines : \A s \in YieldedSymbols(e) :
              tickers[s][e] = LastTicker(e, s)

\* Mexc returned a book with two tickers of BTC_USDT, bid 1 then bid 2, and
\* Binance a ticker of the same unified symbol: the table passed to
\* CalculateSpreads holds the second Mexc ticker next to the Binance one.
C21_Witness ==
    /\ pc = "tick"
    /\ cycle >= 1
    /\ \E s \in DOMAIN tickers :
          /\ DOMAIN tickers[s] = {"Binance", "Mexc"}
          /\ Cardinality(YieldsOf("Mexc", s)) = 2
          /\ \E k \in YieldsOf("Mexc", s) : fetched["Mexc"].data[k].Bid1 = F(1)
          /\ tickers[s]["Mexc"].Bid = F(2)
          /\ tickers[s]["Mexc"].VolumeUSD = F(6)
          /\ tickers[s]["Binance"].Bid = F(2)

----------------------------------------------------------------------------
(* Properties of the MexcAdapter lifecycle *)

\* The last Restart returned without error: the adapter is idle on a context
\* that is not the first and has not been cancelled.
Restarted ==
    /\ ctx > 1
    /\ adapter.pc = "idle"
    /\ ctx \notin cancelled

\* C22: after a Restart that cancelled the old context, replaced the cache
\* by an empty map and started the new connections, every entry of the cache
\* was written by a goroutine of the current generation: no goroutine started
\* before the Restart writes into it.
C22_RestartStopsOldGeneration ==
    Restarted => \A s \in DOMAIN FundingRates : wrote[s] = ctx

\* The goroutines of context c and their ping goroutines have ended and
\* their connections are closed, or the process has exited.
Stopped(c) ==
    \/ shutdown = "exited"
    \/ \A id \in DOMAIN conns :
          conns[id].ctx = c =>
              /\ conns[id].pc = "returned"
              /\ conns[id].ping # "running"
              /\ conns[id].conn # "open"

\* C23: once a context of the adapter is cancelled, by Close or by the cancel
\* step of Restart, every reader goroutine started under it and its ping
\* goroutine eventually terminate and the connection is closed, whether or
\* not the server sends any further message.
C23_CancellationStops ==
    \A c \in 1..(MaxRestarts + 1) : (c \in cancelled) ~> Stopped(c)

----------------------------------------------------------------------------
(* Properties of BinanceAdapter.UpdateFundingRates *)

\* The elements of the premium index fetched by the call whose symbol ends in USDT.
USDTIndexes ==
    {k \in DOMAIN update.premiumIndexes :
        QuoteSupported("Binance", update.premiumIndexes[k].Symbol)}

\* The funding interval the fetched funding info gives for symbol, or 8.
IntervalFor(symbol) ==
    LET infos == {j \in DOMAIN update.fundingInfos :
                     update.fundingInfos[j].Symbol = symbol}
    IN  IF infos = {} THEN 8
        ELSE update.fundingInfos[CHOOSE j \in infos : TRUE].FundingIntervalHours

Refreshed ==
    {UnifiedOf(BaseOf("Binance", update.premiumIndexes[k].Symbol)) : k \in USDTIndexes}

\* C24: from the call of UpdateFundingRates until both fetches have ended and
\* the write lock is held the cache is as it was at the call; a call with a
\* failed fetch returns that error (the premium-index one first) and leaves
\* the cache as it was; a call with two successful fetches returns no error
\* and leaves the cache with the entries it had, except that for every
\* premium-index symbol ending in USDT the entry of its unified symbol
\* carries the fetched rate and settle time and the interval of the funding
\* info for the symbol, or 8 when the funding info has none.
C24_AllOrNothing ==
    /\ update.pc \in {"Wait", "Lock", "store"} => binanceFundingRates = update.before
    /\ update.pc = "store" =>
          /\ update.mu = "UpdateFundingRates"
          /\ update.premium = "done" /\ update.info = "done"
          /\ update.errPremium = << >> /\ update.errInfo = << >>
    /\ update.returned =>
          /\ update.premium = "done" /\ update.info = "done"
          /\ update.mu = "unlocked"
          /\ update.err = IF update.errPremium # << >> THEN update.errPremium
                          ELSE update.errInfo
          /\ update.err # << >> => binanceFundingRates = update.before
          /\ update.err = << >> =>
                /\ DOMAIN binanceFundingRates = DOMAIN update.before \cup Refreshed
                /\ \A s \in DOMAIN update.before \ Refreshed :
                      binanceFundingRates[s] = update.before[s]
                /\ \A k \in USDTIndexes :
                      LET premiumIndex == update.premiumIndexes[k]
                          entry == binanceFundingRates[
                                       UnifiedOf(BaseOf("Binance", premiumIndex.Symbol))]
                      IN  /\ entry.Symbol = premiumIndex.Symbol
                          /\ entry.LastFundingRate = premiumIndex.LastFundingRate
                          /\ entry.NextFundingTime = premiumIndex.NextFundingTime
                          /\ entry.FundingIntervalHours = IntervalFor(premiumIndex.Symbol)

\* A first call stored ETH with the interval 4 of the funding info and SOL
\* with the default 8; in the second call the premium index was fetched and
\* the funding info failed: the call returned the error and the two entries
\* of the first call are still in the cache.
C24_Witness ==
    /\ update.calls = 2
    /\ update.returned
    /\ update.errPremium = << >>
    /\ update.premiumIndexes # << >>
    /\ update.err # << >>
    /\ Cardinality(DOMAIN binanceFundingRates) = 2
    /\ \E s \in DOMAIN binanceFundingRates : binanceFundingRates[s].FundingIntervalHours = 4
    /\ \E s \in DOMAIN binanceFundingRates : binanceFundingRates[s].FundingIntervalHours = 8

----------------------------------------------------------------------------
(* Properties of startWsConnections *)

\* The chunks given to the connection goroutines, one after the other.
RECURSIVE ChunksInOrder(_)
ChunksInOrder(c) ==
    IF c = 0 THEN << >> ELSE ChunksInOrder(c - 1) \o conns[c].symbols

\* The connections whose chunk holds symbol.
ConnsOf(symbol) ==
    {c \in DOMAIN conns : \E j \in DOMAIN conns[c].symbols : conns[c].symbols[j] = symbol}

\* C25: when startWsConnections has returned for a list of n symbols, it has
\* started ceil(n / 20) connection goroutines (none for n = 0), every chunk
\* has between 1 and 20 symbols, the chunks in the order of their start make
\* up the list, and every symbol of the list is in the chunk of exactly one
\* connection.
C25_SubscriptionPartition ==
    adapter.pc = "idle" /\ adapter.caller = "none" /\ ctx = 1 /\ cancelled = {} =>
        LET n == Len(symbols)
        IN  /\ Len(conns) * 20 >= n
            /\ (Len(conns) - 1) * 20 < n
            /\ n = 0 => conns = << >>
            /\ \A c \in DOMAIN conns :
                  /\ Len(conns[c].symbols) \in 1..20
                  /\ conns[c].ctx = ctx
            /\ ChunksInOrder(Len(conns)) = symbols
            /\ \A k \in 1..n : Cardinality(ConnsOf(symbols[k])) = 1

\* A list of 41 symbols: three connections with chunks of 20, 20 and 1
\* symbols, the last of which has subscribed.
C25_Witness ==
    /\ adapter.pc = "idle"
    /\ Len(symbols) = 41
    /\ Len(conns) = 3
    /\ Len(conns[1].symbols) = 20
    /\ Len(conns[3].symbols) = 1
    /\ conns[3].symbols[1] = symbols[41]
    /\ conns[3].pc = "select"

----------------------------------------------------------------------------
(* Properties of the two directions of a pair *)

\* The book of exchange e for symbol s has bid <= ask.
Uncrossed(s, e) == DiffN(Ask(s, e), Bid(s, e)) >= 0

UnorderedPairs(s) == {P \in SUBSET Quoted(s) : Cardinality(P) = 2}

\* C26: both directions of a pair of exchanges are emitted only when the book
\* of one of the two is crossed; a symbol whose books are all uncrossed and
\* that is quoted by N exchanges has at most N * (N - 1) / 2 opportunities,
\* at most one for every unordered pair.
C26_OneDirection ==
    Done =>
        \A s \in DOMAIN tickers :
            /\ \A x \in OrderedPairs(s) :
                  Has(s, x[1], x[2]) /\ Has(s, x[2], x[1]) =>
                      ~Uncrossed(s, x[1]) \/ ~Uncrossed(s, x[2])
            /\ (\A e \in Quoted(s) : Uncrossed(s, e)) =>
                  /\ 2 * Len(OfSymbol(spreads, s)) <=
                         Cardinality(Quoted(s)) * (Cardinality(Quoted(s)) - 1)
                  /\ \A P \in UnorderedPairs(s) :
                        Len(SelectSeq(spreads,
                                LAMBDA r : /\ r.UnifiedSymbol = s
                                           /\ {r.ExchangeShort, r.ExchangeLong} = P)) <= 1

\* One symbol with two uncrossed books and one direction emitted, another
\* symbol with both directions emitted.
C26_Witness ==
    /\ Done
    /\ \E s \in DOMAIN tickers : \E x \in OrderedPairs(s) :
          /\ Uncrossed(s, x[1]) /\ Uncrossed(s, x[2])
          /\ Has(s, x[1], x[2]) /\ ~Has(s, x[2], x[1])
    /\ \E s \in DOMAIN tickers : \E x \in OrderedPairs(s) :
          /\ Has(s, x[1], x[2]) /\ Has(s, x[2], x[1])
          /\ ~Uncrossed(s, x[1])

\* C27: for every opportunity with short venue A and long venue B,
\* openDiff + exitDiff = -((ask(A) - bid(A)) + (ask(B) - bid(B))); when both
\* books are uncrossed exitDiff < 0, and when in addition the four prices
\* are positive exitSpreadPct < 0.
C27_GapsAndWidths ==
    Done =>
        \A k \in DOMAIN spreads :
            LET r == spreads[k]
                s == r.UnifiedSymbol
                A == r.ExchangeShort
                B == r.ExchangeLong
                widths == FAdd(FSub(Ask(s, A), Bid(s, A)), FSub(Ask(s, B), Bid(s, B)))
            IN  /\ FAdd(r.OpenDiff, r.ExitDiff) = FSub(Zero, widths)
                /\ Uncrossed(s, A) /\ Uncrossed(s, B) =>
                      /\ r.ExitDiff.n < 0 /\ r.ExitDiff.d > 0
                      /\ (/\ Positive(Bid(s, A)) /\ Positive(Ask(s, A))
                          /\ Positive(Bid(s, B)) /\ Positive(Ask(s, B))) =>
                            r.ExitSpread.n < 0 /\ r.ExitSpread.d > 0

\* An opportunity between two uncrossed books at positive prices, with a
\* negative exit spread, and one between crossed books whose exit gap is not
\* negative.
C27_Witness ==
    /\ Done
    /\ \E k \in DOMAIN spreads :
          LET r == spreads[k]
          IN  /\ Uncrossed(r.UnifiedSymbol, r.ExchangeShort)
              /\ Uncrossed(r.UnifiedSymbol, r.ExchangeLong)
              /\ Positive(Bid(r.UnifiedSymbol, r.ExchangeLong))
              /\ Positive(r.OpenDiff)
              /\ r.ExitSpread.n < 0
    /\ \E k \in DOMAIN spreads :
          /\ ~Uncrossed(spreads[k].UnifiedSymbol, spreads[k].ExchangeShort)
          /\ spreads[k].ExitDiff.n >= 0

----------------------------------------------------------------------------
(* Properties of the result as a set *)

\* The symbol and the ordered pairs of distinct exchanges quoting it.
Triples(t) ==
    UNION {{<<s, x[1], x[2]>> : x \in {y \in (DOMAIN t[s]) \X (DOMAIN t[s]) : y[1] # y[2]}} :
              s \in DOMAIN t}

\* The opportunities the price table determines: the record of every symbol
\* and ordered pair of distinct exchanges quoting it whose entry spread is
\* positive.
OpportunitiesOf(t) ==
    {r \in {Spread(y[1], y[2], y[3], t[y[1]][y[2]], t[y[1]][y[3]]) : y \in Triples(t)} :
        Positive(r.EntrySpread)}

\* C28: whatever the iteration order of the symbols and the enumeration
\* order of the exchanges of each symbol, the records returned are the
\* opportunities the price table determines, each once, in descending order
\* of entry spread; two calls on equal tables differ at most in the position
\* of records with equal entry spread.
C28_OrderIndependence ==
    Done =>
        /\ LET opportunities == OpportunitiesOf(tickers)
           IN  /\ {spreads[k] : k \in DOMAIN spreads} = opportunities
               /\ Len(spreads) = Cardinality(opportunities)
        /\ \A k \in 1..(Len(spreads) - 1) :
              ~FGT(spreads[k + 1].EntrySpread, spreads[k].EntrySpread)

\* A call that iterated over ETH before BTC and enumerated Mexc before
\* Binance, with an opportunity of each symbol at equal entry spread, the
\* one of ETH first, and a third opportunity.
C28_Witness ==
    /\ Done
    /\ Len(evaluated) = 4
    /\ evaluated[1].symbol = "ETH/USDT:PERP"
    /\ evaluated[1].A = "Mexc"
    /\ evaluated[3].A = "Mexc"
    /\ Len(spreads) = 3
    /\ \E k \in 1..2 :
          /\ spreads[k].EntrySpread = spreads[k + 1].EntrySpread
          /\ spreads[k].UnifiedSymbol = "ETH/USDT:PERP"
          /\ spreads[k + 1].UnifiedSymbol = "BTC/USDT:PERP"

\* C29: every opportunity of the result has two different exchanges that
\* both quote its symbol in the price table, no two opportunities have the
\* same symbol, short exchange and long exchange, and the result holds every
\* record the loops emitted as often as it was emitted.
C29_WellFormed ==
    Done =>
        /\ \A k \in DOMAIN spreads :
              /\ spreads[k].ExchangeShort # spreads[k].ExchangeLong
              /\ spreads[k].UnifiedSymbol \in DOMAIN tickers
              /\ spreads[k].ExchangeShort \in Quoted(spreads[k].UnifiedSymbol)
              /\ spreads[k].ExchangeLong \in Quoted(spreads[k].UnifiedSymbol)
        /\ \A k, j \in DOMAIN spreads :
              (/\ spreads[k].UnifiedSymbol = spreads[j].UnifiedSymbol
               /\ spreads[k].ExchangeShort = spreads[j].ExchangeShort
               /\ spreads[k].ExchangeLong = spreads[j].ExchangeLong) => k = j
        /\ Len(spreads) =
              Cardinality({k \in DOMAIN evaluated : Positive(evaluated[k].spread.EntrySpread)})
        /\ \A k \in DOMAIN evaluated :
              Positive(evaluated[k].spread.EntrySpread) =>
                  Cardinality({j \in DOMAIN spreads : spreads[j] = evaluated[k].spread}) =
                  Cardinality({j \in DOMAIN evaluated : evaluated[j].spread = evaluated[k].spread})

\* A call that emitted three opportunities, the last emitted one with the
\* largest entry spread: the sort moved it to the front.
C29_Witness ==
    /\ Done
    /\ Len(spreads) >= 3
    /\ \E k \in DOMAIN evaluated :
          /\ evaluated[k].spread = spreads[1]
          /\ \A j \in DOMAIN evaluated :
                Positive(evaluated[j].spread.EntrySpread) /\ j # k =>
                    /\ j < k
                    /\ FGT(spreads[1].EntrySpread, evaluated[j].spread.EntrySpread)

----------------------------------------------------------------------------
(* Properties of the funding lookup by exchange name *)

FundingNames == {"Binance", "Mexc"}

\* Exchange names the lookup has no case for: a third exchange, other
\* spellings of the two names, the empty name.
OtherNames == {"Bybit", "binance", "BINANCE", "mexc", "MEXC", "Binance ", ""}

ThirdExchange(r) ==
    r.ExchangeShort \notin FundingNames \/ r.ExchangeLong \notin FundingNames

\* C30: getFundingRateInfo finds nothing for an exchange name other than
\* "Binance" and "Mexc", whatever the two funding maps hold; every evaluated
\* pair with such an exchange on either side and a positive entry spread is
\* in the result of the engine of part_006, its record has no funding
\* spread and no funding rate for that side, its serialized form has no
\* funding_spread_8h, and its price fields are the computed ones.
C30_FundingByName ==
    (Done /\ engine = "part_006") =>
          /\ \A s \in Symbols : \A e \in OtherNames :
                LET fundingInfo == getFundingRateInfo(s, e, binanceFundingRates,
                                                      mexcFundingRates)
                IN  ~fundingInfo.found /\ fundingInfo.info = Nil
          /\ \A k \in DOMAIN evaluated :
                LET e == evaluated[k]
                IN  (/\ e.A \notin FundingNames \/ e.B \notin FundingNames
                     /\ DiffN(Bid(e.symbol, e.A), Ask(e.symbol, e.B)) > 0
                     /\ SumN(Bid(e.symbol, e.A), Ask(e.symbol, e.B)) > 0)
                    => Has(e.symbol, e.A, e.B)
          /\ \A k \in DOMAIN spreads :
                LET r == spreads[k]
                    bidA == Bid(r.UnifiedSymbol, r.ExchangeShort)
                    askA == Ask(r.UnifiedSymbol, r.ExchangeShort)
                    bidB == Bid(r.UnifiedSymbol, r.ExchangeLong)
                    askB == Ask(r.UnifiedSymbol, r.ExchangeLong)
                IN  ThirdExchange(r) =>
                        /\ r.FundingSpread8h = Nil
                        /\ r.ExchangeShort \notin FundingNames => r.FundingRateShort = Nil
                        /\ r.ExchangeLong \notin FundingNames => r.FundingRateLong = Nil
                        /\ IsFrac(r.OpenDiff, DiffN(bidA, askB), CommonD(bidA, askB))
                        /\ IsFrac(r.EntrySpread, 200 * DiffN(bidA, askB), SumN(bidA, askB))
                        /\ IsFrac(r.ExitDiff, DiffN(bidB, askA), CommonD(bidB, askA))
                        /\ IsFrac(r.ExitSpread, 200 * DiffN(bidB, askA), SumN(bidB, askA))
                        /\ pc = "published" =>
                              /\ "funding_spread_8h" \notin DOMAIN published[k]
                              /\ published[k]["entry_spread"] = r.EntrySpread
                              /\ published[k]["exit_spread"] = r.ExitSpread

\* Three exchanges quote the symbol and both funding maps hold a usable
\* record for it; the published result has the opportunities Bybit short /
\* Binance long and Bybit short / Mexc long, without funding spread, the
\* first with the funding rate of its Binance side.
C30_Witness ==
    /\ pc = "published"
    /\ engine = "part_006"
    /\ UsableFunding("Binance", "BTC/USDT:PERP")
    /\ UsableFunding("Mexc", "BTC/USDT:PERP")
    /\ \E k, j \in DOMAIN spreads :
          /\ spreads[k].ExchangeShort = "Bybit"
          /\ spreads[k].ExchangeLong = "Binance"
          /\ spreads[k].FundingRateLong # Nil
          /\ spreads[k].FundingSpread8h = Nil
          /\ "funding_spread_8h" \notin DOMAIN published[k]
          /\ Positive(published[k]["entry_spread"])
          /\ spreads[j].ExchangeShort = "Bybit"
          /\ spreads[j].ExchangeLong = "Mexc"

====
